---- MODULE Spec2Model ----
(***************************************************************************)
(* A model of the PDF outline extraction pipeline: main.process_pdf,       *)
(* TitleFinder, cover_page and PDFOutlineExtractor.                        *)
(*                                                                         *)
(* Conventions.                                                            *)
(*   - A Python str is a sequence of one-character strings.  Characters    *)
(*     outside ASCII are written as tokens: "<bullet>", "<middot>",        *)
(*     "<copyright>", and the letters "<E-acute>" / "<e-acute>".           *)
(*   - A font size is an integer number of tenths of a point (the source   *)
(*     rounds sizes to one decimal); a coordinate is an integer number of  *)
(*     points.  Every comparison of the source between real numbers is     *)
(*     stated here cross-multiplied, in exact arithmetic.                  *)
(*   - A regular expression is a tree of nodes; Ends computes the set of   *)
(*     positions at which a match started at a given position can end.     *)
(***************************************************************************)
EXTENDS Integers, Sequences, FiniteSets, TLC

(***************************************************************************)
(* Characters and Python's str methods                                     *)
(***************************************************************************)
Digits == {"0", "1", "2", "3", "4", "5", "6", "7", "8", "9"}

\* A-Z
AsciiUpperSeq == <<"A", "B", "C", "D", "E", "F", "G", "H", "I", "J", "K", "L", "M",
                   "N", "O", "P", "Q", "R", "S", "T", "U", "V", "W", "X", "Y", "Z">>

\* a-z
AsciiLowerSeq == <<"a", "b", "c", "d", "e", "f", "g", "h", "i", "j", "k", "l", "m",
                   "n", "o", "p", "q", "r", "s", "t", "u", "v", "w", "x", "y", "z">>

\* the upper-case letters of the model: A-Z and one letter outside ASCII
UpperSeq == AsciiUpperSeq \o <<"<E-acute>">>

LowerSeq == AsciiLowerSeq \o <<"<e-acute>">>

AsciiUpper == {AsciiUpperSeq[i] : i \in 1..Len(AsciiUpperSeq)}

AsciiLower == {AsciiLowerSeq[i] : i \in 1..Len(AsciiLowerSeq)}

\* the characters c with c.isupper() / c.islower()
UpperChars == {UpperSeq[i] : i \in 1..Len(UpperSeq)}

LowerChars == {LowerSeq[i] : i \in 1..Len(LowerSeq)}

Letters == UpperChars \cup LowerChars

\* [a-zA-Z0-9]
AsciiAlnum == AsciiUpper \cup AsciiLower \cup Digits

\* \w of the re module
WordChars == Letters \cup Digits \cup {"_"}

\* \s of the re module, and the characters str.strip() and str.split() remove
SpaceChars == {" ", "\t", "\n"}

Abs(n) == IF n < 0 THEN -n ELSE n

Max2(a, b) == IF a >= b THEN a ELSE b

Min2(a, b) == IF a <= b THEN a ELSE b

\* str.lower() on one character
LowerChar(c) ==
    IF c \in UpperChars
    THEN LowerSeq[CHOOSE i \in 1..Len(UpperSeq) : UpperSeq[i] = c]
    ELSE c

\* str.lower()
Lower(s) == [i \in 1..Len(s) |-> LowerChar(s[i])]

\* str.lstrip(chars) / str.rstrip(chars) / str.strip(chars)
RECURSIVE LStripSet(_, _)
LStripSet(s, cs) ==
    IF s # <<>> /\ Head(s) \in cs THEN LStripSet(Tail(s), cs) ELSE s

RECURSIVE RStripSet(_, _)
RStripSet(s, cs) ==
    IF s # <<>> /\ s[Len(s)] \in cs
    THEN RStripSet(SubSeq(s, 1, Len(s) - 1), cs)
    ELSE s

StripSet(s, cs) == RStripSet(LStripSet(s, cs), cs)

\* str.strip()
Strip(s) == StripSet(s, SpaceChars)

\* the characters of s that are in (keep = TRUE) or not in (keep = FALSE) cs
FilterChars(s, cs, keep) == SelectSeq(s, LAMBDA c : (c \in cs) = keep)

\* str.count(" ") and the like: the number of characters of s that are in cs
CountChars(s, cs) == Len(FilterChars(s, cs, TRUE))

\* len(s.split()): the number of maximal runs of non-space characters
WordCount(s) ==
    Cardinality({i \in 1..Len(s) :
        /\ s[i] \notin SpaceChars
        /\ (i = 1 \/ s[i - 1] \in SpaceChars)})

\* s.split(): the maximal runs of non-space characters, in order
RECURSIVE Split(_)
Split(s) ==
    LET t == LStripSet(s, SpaceChars)
        n == IF \E i \in 1..Len(t) : t[i] \in SpaceChars
             THEN (CHOOSE i \in 1..Len(t) :
                      /\ t[i] \in SpaceChars
                      /\ \A j \in 1..(i - 1) : t[j] \notin SpaceChars) - 1
             ELSE Len(t)
    IN  IF t = <<>> THEN <<>>
        ELSE <<SubSeq(t, 1, n)>> \o Split(SubSeq(t, n + 1, Len(t)))

\* sep.join(parts)
RECURSIVE Join(_, _)
Join(parts, sep) ==
    IF parts = <<>> THEN <<>>
    ELSE IF Len(parts) = 1 THEN parts[1]
    ELSE parts[1] \o sep \o Join(Tail(parts), sep)

\* str.isupper(): some cased character, and no lower-case one
IsUpperStr(s) ==
    /\ \E i \in 1..Len(s) : s[i] \in UpperChars
    /\ \A i \in 1..Len(s) : s[i] \notin LowerChars

\* str.isdigit()
IsDigitStr(s) == s # <<>> /\ \A i \in 1..Len(s) : s[i] \in Digits

\* sub in s
Contains(s, sub) ==
    \E i \in 0..(Len(s) - Len(sub)) : SubSeq(s, i + 1, i + Len(sub)) = sub

\* s.count(sub) for the non-overlapping occurrences, scanned left to right
RECURSIVE CountSub(_, _)
CountSub(s, sub) ==
    IF Len(s) < Len(sub) THEN 0
    ELSE IF SubSeq(s, 1, Len(sub)) = sub
         THEN 1 + CountSub(SubSeq(s, Len(sub) + 1, Len(s)), sub)
         ELSE CountSub(Tail(s), sub)

\* s.endswith(c) for a one-character c
EndsWithChar(s, c) == s # <<>> /\ s[Len(s)] = c

(***************************************************************************)
(* Regular expressions of the re module                                    *)
(***************************************************************************)
Node(t, cs, rs) == [t |-> t, cs |-> cs, rs |-> rs]

\* [cs]
ReSet(cs) == Node("set", cs, <<>>)

\* [^cs]
ReNot(cs) == Node("nset", cs, <<>>)

\* r1 r2 ...
ReSeq(rs) == Node("seq", {}, rs)

\* r1 | r2 | ...
ReAlt(rs) == Node("alt", {}, rs)

\* r*
ReStar(r) == Node("star", {}, <<r>>)

\* r+
RePlus(r) == ReSeq(<<r, ReStar(r)>>)

\* r?
ReOpt(r) == ReAlt(<<r, ReSeq(<<>>)>>)

\* $ (the texts of the model hold no trailing newline)
ReEnd == Node("eos", {}, <<>>)

\* \b
ReWordB == Node("wb", {}, <<>>)

\* a literal string
ReLit(s) == ReSeq([i \in 1..Len(s) |-> ReSet({s[i]})])

ReDigit == ReSet(Digits)

ReWord == ReSet(WordChars)

ReSpace == ReSet(SpaceChars)

\* whether a word character stands at position p (1-based) of s
WordAt(s, p) == p >= 1 /\ p <= Len(s) /\ s[p] \in WordChars

\* the positions (numbers of characters consumed) at which a match of r that
\* starts at one of the positions P of s can end
RECURSIVE Ends(_, _, _)
RECURSIVE EndsSeq(_, _, _, _)
RECURSIVE EndsStar(_, _, _)
Ends(r, s, P) ==
    CASE r.t = "set"  -> {p + 1 : p \in {q \in P : q < Len(s) /\ s[q + 1] \in r.cs}}
      [] r.t = "nset" -> {p + 1 : p \in {q \in P : q < Len(s) /\ s[q + 1] \notin r.cs}}
      [] r.t = "seq"  -> EndsSeq(r.rs, s, P, 1)
      [] r.t = "alt"  -> UNION {Ends(r.rs[i], s, P) : i \in 1..Len(r.rs)}
      [] r.t = "star" -> EndsStar(r.rs[1], s, P)
      [] r.t = "eos"  -> {p \in P : p = Len(s)}
      [] r.t = "wb"   -> {p \in P : WordAt(s, p) # WordAt(s, p + 1)}

EndsSeq(rs, s, P, i) ==
    IF i > Len(rs) \/ P = {} THEN P
    ELSE EndsSeq(rs, s, Ends(rs[i], s, P), i + 1)

EndsStar(r, s, P) ==
    LET Q == P \cup Ends(r, s, P)
    IN  IF Q = P THEN P ELSE EndsStar(r, s, Q)

\* pattern.match(s): a match that starts at the beginning of s
ReMatch(r, s) == Ends(r, s, {0}) # {}

\* pattern.search(s): a match that starts anywhere in s
ReSearch(r, s) == Ends(r, s, 0..Len(s)) # {}

\* a pattern compiled with re.IGNORECASE whose literals are lower-case
ReMatchIC(r, s) == ReMatch(r, Lower(s))

(***************************************************************************)
(* PDFOutlineExtractor: configuration (__init__)                           *)
(***************************************************************************)
\* 0.1, in tenths
header_footer_threshold == 1

\* 1.3, in tenths
min_heading_ratio == 13

min_heading_length == 4

max_heading_length == 100

\* 0.15, in hundredths
form_field_threshold == 15

\* 0.5, in tenths
spaced_text_threshold == 5

line_merge_tolerance_y == 7

line_merge_tolerance_x == 20

indentation_threshold == 25

\* \d+(\.\d+)*
ReNumbering == ReSeq(<<RePlus(ReDigit), ReStar(ReSeq(<<ReSet({"."}), RePlus(ReDigit)>>))>>)

\* ^\s*<lit>\s*$
ReWholeLine(lit) == ReSeq(<<ReStar(ReSpace), ReLit(lit), ReStar(ReSpace), ReEnd>>)

\* self.non_heading_patterns, in order: the pattern and whether it is compiled
\* with re.IGNORECASE
non_heading_patterns ==
    << \* ^(figure|table|appendix|note:)\b
       [re |-> ReSeq(<<ReAlt(<<ReLit(<<"f", "i", "g", "u", "r", "e">>),
                               ReLit(<<"t", "a", "b", "l", "e">>),
                               ReLit(<<"a", "p", "p", "e", "n", "d", "i", "x">>),
                               ReLit(<<"n", "o", "t", "e", ":">>)>>),
                       ReWordB>>),
        ic |-> TRUE],
       \* ^[<bullet>\-*<middot>]\s
       [re |-> ReSeq(<<ReSet({"<bullet>", "-", "*", "<middot>"}), ReSpace>>),
        ic |-> FALSE],
       \* ^\d+[/-]\d+$
       [re |-> ReSeq(<<RePlus(ReDigit), ReSet({"/", "-"}), RePlus(ReDigit), ReEnd>>),
        ic |-> FALSE],
       \* ^[A-Za-z]\d+$
       [re |-> ReSeq(<<ReSet(AsciiUpper \cup AsciiLower), RePlus(ReDigit), ReEnd>>),
        ic |-> FALSE],
       \* ^\s*\d+\s*$
       [re |-> ReSeq(<<ReStar(ReSpace), RePlus(ReDigit), ReStar(ReSpace), ReEnd>>),
        ic |-> FALSE],
       \* ^[A-Z][A-Za-z]*:$
       [re |-> ReSeq(<<ReSet(AsciiUpper), ReStar(ReSet(AsciiUpper \cup AsciiLower)),
                       ReSet({":"}), ReEnd>>),
        ic |-> FALSE],
       \* ^\w+/\w+:$
       [re |-> ReSeq(<<RePlus(ReWord), ReSet({"/"}), RePlus(ReWord), ReSet({":"}), ReEnd>>),
        ic |-> FALSE],
       \* ^\d+\.\s*\w+:$
       [re |-> ReSeq(<<RePlus(ReDigit), ReSet({"."}), ReStar(ReSpace), RePlus(ReWord),
                       ReSet({":"}), ReEnd>>),
        ic |-> FALSE],
       \* ^(s\.?no\.?|sr\.?no\.?)$
       [re |-> ReSeq(<<ReAlt(<<ReSeq(<<ReLit(<<"s">>), ReOpt(ReSet({"."})),
                                       ReLit(<<"n", "o">>), ReOpt(ReSet({"."}))>>),
                               ReSeq(<<ReLit(<<"s", "r">>), ReOpt(ReSet({"."})),
                                       ReLit(<<"n", "o">>), ReOpt(ReSet({"."}))>>)>>),
                       ReEnd>>),
        ic |-> TRUE],
       \* ^(name|date|address|...|grand total)$
       [re |-> ReSeq(<<ReAlt(<<ReLit(<<"n", "a", "m", "e">>),
                               ReLit(<<"d", "a", "t", "e">>),
                               ReLit(<<"a", "d", "d", "r", "e", "s", "s">>),
                               ReLit(<<"p", "h", "o", "n", "e">>),
                               ReLit(<<"e", "m", "a", "i", "l">>),
                               ReLit(<<"i", "d">>),
                               ReLit(<<"s", "e", "x">>),
                               ReLit(<<"g", "e", "n", "d", "e", "r">>),
                               ReLit(<<"a", "g", "e">>),
                               ReLit(<<"s", "i", "g", "n", "a", "t", "u", "r", "e">>),
                               ReLit(<<"c", "i", "t", "y">>),
                               ReLit(<<"s", "t", "a", "t", "e">>),
                               ReLit(<<"z", "i", "p">>),
                               ReLit(<<"c", "o", "u", "n", "t", "r", "y">>),
                               ReLit(<<"t", "o", "t", "a", "l">>),
                               ReLit(<<"a", "m", "o", "u", "n", "t">>),
                               ReLit(<<"i", "t", "e", "m">>),
                               ReLit(<<"q", "u", "a", "n", "t", "i", "t", "y">>),
                               ReLit(<<"d", "e", "s", "c", "r", "i", "p", "t", "i", "o", "n">>),
                               ReLit(<<"r", "e", "l", "a", "t", "i", "o", "n">>),
                               ReLit(<<"r", "e", "l", "a", "t", "i", "o", "n", "s", "h", "i", "p">>),
                               ReLit(<<"v", "a", "l", "u", "e">>),
                               ReLit(<<"u", "n", "i", "t">>),
                               ReLit(<<"p", "r", "i", "c", "e">>),
                               ReLit(<<"t", "y", "p", "e">>),
                               ReLit(<<"s", "t", "a", "t", "u", "s">>),
                               ReLit(<<"c", "o", "m", "m", "e", "n", "t", "s">>),
                               ReLit(<<"n", "o", "t", "e", "s">>),
                               ReLit(<<"r", "e", "m", "a", "r", "k", "s">>),
                               ReLit(<<"s", "u", "b", "t", "o", "t", "a", "l">>),
                               ReLit(<<"t", "a", "x">>),
                               ReLit(<<"g", "r", "a", "n", "d", " ", "t", "o", "t", "a", "l">>)>>),
                       ReEnd>>),
        ic |-> TRUE],
       \* ^\s*<copyright>\s*\d{4}\s*
       [re |-> ReSeq(<<ReStar(ReSpace), ReSet({"<copyright>"}), ReStar(ReSpace),
                       ReDigit, ReDigit, ReDigit, ReDigit, ReStar(ReSpace)>>),
        ic |-> FALSE],
       \* ^\s*all rights reserved\s*$
       [re |-> ReWholeLine(<<"a", "l", "l", " ", "r", "i", "g", "h", "t", "s", " ",
                             "r", "e", "s", "e", "r", "v", "e", "d">>),
        ic |-> TRUE],
       \* ^\s*confidential\s*$
       [re |-> ReWholeLine(<<"c", "o", "n", "f", "i", "d", "e", "n", "t", "i", "a", "l">>),
        ic |-> TRUE],
       \* ^\s*document\s+id:\s*
       [re |-> ReSeq(<<ReStar(ReSpace), ReLit(<<"d", "o", "c", "u", "m", "e", "n", "t">>),
                       RePlus(ReSpace), ReLit(<<"i", "d", ":">>), ReStar(ReSpace)>>),
        ic |-> TRUE],
       \* ^\s*page\s+\d+\s+of\s+\d+\s*$
       [re |-> ReSeq(<<ReStar(ReSpace), ReLit(<<"p", "a", "g", "e">>), RePlus(ReSpace),
                       RePlus(ReDigit), RePlus(ReSpace), ReLit(<<"o", "f">>),
                       RePlus(ReSpace), RePlus(ReDigit), ReStar(ReSpace), ReEnd>>),
        ic |-> TRUE],
       \* ^\s*disclaimer\s*$
       [re |-> ReWholeLine(<<"d", "i", "s", "c", "l", "a", "i", "m", "e", "r">>),
        ic |-> TRUE],
       \* ^\s*copyright\s*$
       [re |-> ReWholeLine(<<"c", "o", "p", "y", "r", "i", "g", "h", "t">>),
        ic |-> TRUE],
       \* ^\s*prepared\s+by:
       [re |-> ReSeq(<<ReStar(ReSpace), ReLit(<<"p", "r", "e", "p", "a", "r", "e", "d">>),
                       RePlus(ReSpace), ReLit(<<"b", "y", ":">>)>>),
        ic |-> TRUE],
       \* ^\s*for\s+internal\s+use\s+only\s*$
       [re |-> ReSeq(<<ReStar(ReSpace), ReLit(<<"f", "o", "r">>), RePlus(ReSpace),
                       ReLit(<<"i", "n", "t", "e", "r", "n", "a", "l">>), RePlus(ReSpace),
                       ReLit(<<"u", "s", "e">>), RePlus(ReSpace),
                       ReLit(<<"o", "n", "l", "y">>), ReStar(ReSpace), ReEnd>>),
        ic |-> TRUE],
       \* ^\s*version\s+\d+(\.\d+)*(\s+\w+)?$
       [re |-> ReSeq(<<ReStar(ReSpace), ReLit(<<"v", "e", "r", "s", "i", "o", "n">>),
                       RePlus(ReSpace), ReNumbering,
                       ReOpt(ReSeq(<<RePlus(ReSpace), RePlus(ReWord)>>)), ReEnd>>),
        ic |-> TRUE],
       \* ^\s*revision\s+history\s*$
       [re |-> ReSeq(<<ReStar(ReSpace), ReLit(<<"r", "e", "v", "i", "s", "i", "o", "n">>),
                       RePlus(ReSpace), ReLit(<<"h", "i", "s", "t", "o", "r", "y">>),
                       ReStar(ReSpace), ReEnd>>),
        ic |-> TRUE] >>

\* self.spaced_text_pattern: \w\s{3,}\w
spaced_text_pattern ==
    ReSeq(<<ReWord, ReSpace, ReSpace, ReSpace, ReStar(ReSpace), ReWord>>)

\* any(pattern.match(text) for pattern in self.non_heading_patterns)
MatchesNonHeadingPattern(text) ==
    \E i \in 1..Len(non_heading_patterns) :
        IF non_heading_patterns[i].ic
        THEN ReMatchIC(non_heading_patterns[i].re, text)
        ELSE ReMatch(non_heading_patterns[i].re, text)

(***************************************************************************)
(* PDFOutlineExtractor: the heading candidate classifier                   *)
(***************************************************************************)
\* the keywords of _is_bold_font
BoldKeywords ==
    {<<"b", "o", "l", "d">>, <<"b", "l", "a", "c", "k">>, <<"h", "e", "a", "v", "y">>,
     <<"d", "e", "m", "i">>, <<"b", "l", "d">>, <<"7", "0", "0">>, <<"8", "0", "0">>,
     <<"9", "0", "0">>}

\* _is_bold_font
IsBoldFont(font_name) ==
    /\ font_name # <<>>
    /\ \E keyword \in BoldKeywords : Contains(Lower(font_name), keyword)

\* the space ratio test of _is_spaced_text: space_count / non_space_chars > 0.5
SpaceRatioExceeds(text) ==
    LET space_count == CountChars(text, {" "})
        non_space_chars == Len(text) - space_count
    IN  /\ non_space_chars > 0
        /\ 10 * space_count > spaced_text_threshold * non_space_chars

\* mutant of IsSpacedText: no text counts as spaced
IsSpacedTextNever(text) == FALSE

\* _is_spaced_text
IsSpacedText(text) ==
    /\ ReSearch(spaced_text_pattern, text)
    /\ SpaceRatioExceeds(text)

\* cleaned_text_for_comparison of _is_heading_candidate
CleanedTextForComparison(text) ==
    LET unbulleted == Strip(StripSet(text, {"<bullet>", "-", "*"} \cup SpaceChars))
    IN  Strip(FilterChars(unbulleted, AsciiAlnum \cup SpaceChars, TRUE))

\* re.match(r'^\d+(\.\d+)*\s*', text)
HasNumberPrefix(text) ==
    ReMatch(ReSeq(<<ReNumbering, ReStar(ReSpace)>>), text)

\* the size gate with a ratio of 1.0 in place of self.min_heading_ratio
SizeRatioAtLeastBody(size, body_size) == size >= body_size

\* size_ratio >= self.min_heading_ratio
SizeRatioOk(size, body_size) == 10 * size >= min_heading_ratio * body_size

\* is_bold_enough: block["is_bold"] and block["size"] > body_size * 1.05
IsBoldEnough(is_bold, size, body_size) == is_bold /\ 100 * size > 105 * body_size

\* looks_like_sentence
LooksLikeSentence(text, word_count) ==
    /\ text[1] \in UpperChars
    /\ word_count > 3
    /\ text[Len(text)] \in {".", "?", "!"}

\* is_strong_heading_pattern: text.isupper() or
\* re.match(r'^(?:\d+(\.\d+)*|[A-Z])\s*', text)
IsStrongHeadingPattern(text) ==
    \/ IsUpperStr(text)
    \/ ReMatch(ReSeq(<<ReAlt(<<ReNumbering, ReSet(AsciiUpper)>>), ReStar(ReSpace)>>), text)

\* the rejection of a sentence-like block: not is_bold_enough and
\* size_ratio < self.min_heading_ratio * 1.2
WeakSentence(text, word_count, is_bold, size, body_size) ==
    /\ LooksLikeSentence(text, word_count)
    /\ ~IsStrongHeadingPattern(text)
    /\ ~IsBoldEnough(is_bold, size, body_size)
    /\ 100 * size < min_heading_ratio * 12 * body_size

\* _is_heading_candidate
IsHeadingCandidate(block, body_size) ==
    LET text == Strip(block.text)
        cleaned == CleanedTextForComparison(text)
        word_count == WordCount(cleaned)
    IN  /\ text # <<>>
        /\ cleaned # <<>>
        /\ ~(/\ word_count = 1
             /\ ~ReMatch(ReSeq(<<ReNumbering, ReEnd>>), cleaned)
             /\ Len(cleaned) < min_heading_length)
        /\ word_count >= 1
        /\ Len(text) <= max_heading_length
        /\ ~MatchesNonHeadingPattern(text)
        /\ ~EndsWithChar(text, ":")
        /\ ~Contains(text, <<"|">>)
        /\ ~(word_count <= 2 /\ IsUpperStr(text) /\ ~HasNumberPrefix(text))
        /\ ~IsSpacedText(text)
        /\ body_size # 0
        /\ (SizeRatioOk(block.size, body_size)
            \/ IsBoldEnough(block.is_bold, block.size, body_size))
        /\ ~WeakSentence(text, word_count, block.is_bold, block.size, body_size)

(***************************************************************************)
(* PDFOutlineExtractor: heading levels                                     *)
(***************************************************************************)
DigitSeq == <<"0", "1", "2", "3", "4", "5", "6", "7", "8", "9">>

\* int(c) for one decimal digit c
DigitVal(c) == (CHOOSE i \in 1..Len(DigitSeq) : DigitSeq[i] = c) - 1

\* str(n) for a natural number n
RECURSIVE NatStr(_)
NatStr(n) ==
    IF n < 10 THEN <<DigitSeq[n + 1]>>
    ELSE NatStr(n \div 10) \o <<DigitSeq[(n % 10) + 1]>>

\* f"H{n}"
LevelStr(n) == <<"H">> \o NatStr(n)

\* int(level[1])
LevelNum(level) == DigitVal(level[2])

\* match_prefix.group(1) of re.match(r'^(\d+(\.\d+)*|[A-Z])\s*', text): the
\* longest numbering at the start of the text, else its leading A-Z letter,
\* else nothing (no match)
HeadingPrefix(text) ==
    LET numbered == Ends(ReNumbering, text, {0})
    IN  IF numbered # {}
        THEN SubSeq(text, 1, CHOOSE e \in numbered : \A f \in numbered : f <= e)
        ELSE IF text # <<>> /\ text[1] \in AsciiUpper THEN <<text[1]>>
        ELSE <<>>

\* mutant of PrefixLevel: the dot that ends the numbering ("1.") is counted
PrefixLevelTrailingDot(text) ==
    LET prefix == HeadingPrefix(text)
        rest == SubSeq(text, Len(prefix) + 1, Len(text))
        dot_count == CountChars(prefix, {"."})
                        + (IF rest # <<>> /\ rest[1] = "." THEN 1 ELSE 0)
    IN  IF prefix = <<>> THEN 3
        ELSE IF dot_count = 0 /\ IsDigitStr(prefix) THEN 1
        ELSE IF dot_count = 1 THEN 2
        ELSE 3

\* the level the numbering prefix gives (3 without one)
PrefixLevel(text) ==
    LET prefix == HeadingPrefix(text)
        dot_count == CountChars(prefix, {"."})
    IN  IF prefix = <<>> THEN 3
        ELSE IF dot_count = 0 /\ IsDigitStr(prefix) THEN 1
        ELSE IF dot_count = 1 THEN 2
        ELSE 3

\* the first style whose size and boldness match the block, as a rank 1..3
\* (0: none)
MatchingStyleRank(block, heading_styles) ==
    LET hits == {i \in 1..Len(heading_styles) :
                    /\ Abs(block.size - heading_styles[i].size) < 5
                    /\ block.is_bold = heading_styles[i].is_bold}
    IN  IF hits = {} THEN 0 ELSE CHOOSE i \in hits : \A j \in hits : i <= j

\* the adjustment of the level by the heading style table
StyleLevel(block, heading_styles, level) ==
    IF heading_styles = <<>> THEN level
    ELSE
        LET rank == MatchingStyleRank(block, heading_styles)
            l1 == IF rank # 0 /\ rank < level THEN rank ELSE level
            h1_style_size == heading_styles[1].size
        IN  IF h1_style_size > 0
            THEN IF 10 * block.size > 9 * h1_style_size /\ l1 > 1 THEN 1
                 ELSE IF 10 * block.size > 7 * h1_style_size /\ l1 > 2 THEN 2
                 ELSE l1
            ELSE l1

\* is_strongly_left_aligned: abs(origin_x - page width * 0.1) < 30
IsStronglyLeftAligned(origin_x, page_width) == Abs(10 * origin_x - page_width) < 300

\* the adjustment of the level by the previous heading without the indentation
\* rule of lines 431-433
ContextLevelNoIndent(block, prev, page_width, level) ==
    LET prev_level_num == LevelNum(prev.level)
        l2 == IF level > prev_level_num + 1 THEN prev_level_num + 1 ELSE level
        left == IsStronglyLeftAligned(block.origin_x, page_width)
        l3 == IF /\ prev.size > 0
                 /\ 2 * block.size > 3 * prev.size
                 /\ left
                 /\ l2 > 1
              THEN 1 ELSE l2
        vertical_gap == block.origin_y - prev.bbox[4]
        l4 == IF 4 * vertical_gap > block.size /\ left /\ l3 > 1 THEN 1 ELSE l3
    IN  IF 10 * block.size < 9 * prev.size /\ l4 <= prev_level_num
        THEN prev_level_num + 1 ELSE l4

\* the adjustment of the level by the previous heading without the
\* vertical-gap rule of lines 445-448
ContextLevelNoGap(block, prev, page_width, level) ==
    LET prev_level_num == LevelNum(prev.level)
        l1 == IF level > prev_level_num + 1 THEN prev_level_num + 1 ELSE level
        l2 == IF /\ block.origin_x > prev.origin_x + indentation_threshold
                 /\ l1 <= prev_level_num
              THEN prev_level_num + 1 ELSE l1
        left == IsStronglyLeftAligned(block.origin_x, page_width)
        l4 == IF /\ prev.size > 0
                 /\ 2 * block.size > 3 * prev.size
                 /\ left
                 /\ l2 > 1
              THEN 1 ELSE l2
    IN  IF 10 * block.size < 9 * prev.size /\ l4 <= prev_level_num
        THEN prev_level_num + 1 ELSE l4

\* the adjustment of the level by the previous heading
ContextLevel(block, prev, page_width, level) ==
    LET prev_level_num == LevelNum(prev.level)
        l1 == IF level > prev_level_num + 1 THEN prev_level_num + 1 ELSE level
        l2 == IF /\ block.origin_x > prev.origin_x + indentation_threshold
                 /\ l1 <= prev_level_num
              THEN prev_level_num + 1 ELSE l1
        left == IsStronglyLeftAligned(block.origin_x, page_width)
        l3 == IF /\ prev.size > 0
                 /\ 2 * block.size > 3 * prev.size
                 /\ left
                 /\ l2 > 1
              THEN 1 ELSE l2
        vertical_gap == block.origin_y - prev.bbox[4]
        l4 == IF 4 * vertical_gap > block.size /\ left /\ l3 > 1 THEN 1 ELSE l3
    IN  IF 10 * block.size < 9 * prev.size /\ l4 <= prev_level_num
        THEN prev_level_num + 1 ELSE l4

\* _determine_heading_level without the cap of line 453
DetermineHeadingLevelUncapped(block, heading_styles, prev_heading, page_width) ==
    LET text == Strip(block.text)
        l1 == StyleLevel(block, heading_styles, PrefixLevel(text))
    IN  LevelStr(IF prev_heading = <<>> THEN l1
                 ELSE ContextLevel(block, prev_heading[1], page_width, l1))

\* _determine_heading_level; prev_heading is <<>> (None) or <<context>>
DetermineHeadingLevel(block, heading_styles, prev_heading, page_width) ==
    LET text == Strip(block.text)
        l1 == StyleLevel(block, heading_styles, PrefixLevel(text))
        l2 == IF prev_heading = <<>> THEN l1
              ELSE ContextLevel(block, prev_heading[1], page_width, l1)
    IN  LevelStr(Min2(l2, 3))

(***************************************************************************)
(* PDFOutlineExtractor: _refine_hierarchy                                  *)
(***************************************************************************)
common_short_words_to_exclude ==
    {<<"s", ".", "n", "o">>,
     <<"n", "a", "m", "e">>,
     <<"d", "a", "t", "e">>,
     <<"i", "d">>,
     <<"n", "o">>,
     <<"d", "e", "s", "c", "r", "i", "p", "t", "i", "o", "n">>,
     <<"q", "u", "a", "n", "t", "i", "t", "y">>,
     <<"t", "o", "t", "a", "l">>,
     <<"r", "e", "l", "a", "t", "i", "o", "n", "s", "h", "i", "p">>,
     <<"r", "e", "l", "a", "t", "i", "o", "n">>,
     <<"p", "r", "i", "c", "e">>,
     <<"u", "n", "i", "t">>,
     <<"v", "a", "l", "u", "e">>,
     <<"t", "y", "p", "e">>,
     <<"s", "t", "a", "t", "u", "s">>,
     <<"c", "o", "m", "m", "e", "n", "t", "s">>,
     <<"n", "o", "t", "e", "s">>,
     <<"r", "e", "m", "a", "r", "k", "s">>,
     <<"s", "u", "b", "t", "o", "t", "a", "l">>,
     <<"t", "a", "x">>,
     <<"g", "r", "a", "n", "d", " ", "t", "o", "t", "a", "l">>,
     <<"i", "t", "e", "m">>,
     <<"c", "o", "d", "e">>,
     <<"r", "e", "f">>,
     <<"p", "a", "r", "t">>,
     <<"m", "o", "d", "e", "l">>,
     <<"s", "e", "r", "i", "a", "l">>,
     <<"d", "a", "t", "a">>,
     <<"k", "e", "y">>,
     <<"n", "u", "m", "b", "e", "r">>}

\* the duplicate test of the first pass: same text, level and page
IsDuplicate(entry, last_entry) ==
    /\ entry.text = last_entry.text
    /\ entry.level = last_entry.level
    /\ entry.page = last_entry.page

\* the first pass putting each entry kept in front of the entries kept
\* before it
RECURSIVE DropDuplicatesReversed(_, _)
DropDuplicatesReversed(outline_candidates, refined_outline) ==
    IF outline_candidates = <<>> THEN refined_outline
    ELSE
        LET entry == Head(outline_candidates)
        IN  IF /\ refined_outline # <<>>
               /\ IsDuplicate(entry, refined_outline[1])
            THEN DropDuplicatesReversed(Tail(outline_candidates), refined_outline)
            ELSE DropDuplicatesReversed(Tail(outline_candidates),
                                        <<entry>> \o refined_outline)

\* the first pass: an entry equal to the last entry kept is dropped
RECURSIVE DropDuplicates(_, _)
DropDuplicates(outline_candidates, refined_outline) ==
    IF outline_candidates = <<>> THEN refined_outline
    ELSE
        LET entry == Head(outline_candidates)
        IN  IF /\ refined_outline # <<>>
               /\ IsDuplicate(entry, refined_outline[Len(refined_outline)])
            THEN DropDuplicates(Tail(outline_candidates), refined_outline)
            ELSE DropDuplicates(Tail(outline_candidates), Append(refined_outline, entry))

\* mutant of ClampLevel: no clamp
ClampLevelOff(curr_level_num, prev_level_num) == curr_level_num

\* mutant of ClampLevel: a jump of two levels is let through
ClampLevelLoose(curr_level_num, prev_level_num) ==
    IF curr_level_num > prev_level_num + 2
    THEN prev_level_num + 2
    ELSE curr_level_num

\* the level of an entry after the clamp against the entry kept before it
ClampLevel(curr_level_num, prev_level_num) ==
    IF curr_level_num > prev_level_num + 1
    THEN prev_level_num + 1
    ELSE curr_level_num

\* cleaned_text_lower
CleanedTextLower(text) ==
    Strip(FilterChars(Lower(text), AsciiLower \cup Digits \cup SpaceChars, TRUE))

\* whether the second pass drops the entry as a tabular-field label
IsExcludedLabel(text) ==
    LET cleaned_text_lower == CleanedTextLower(text)
    IN  /\ WordCount(cleaned_text_lower) = 1
        /\ cleaned_text_lower \in common_short_words_to_exclude
        /\ ~HasNumberPrefix(text)

\* the second pass, from the second entry on
RECURSIVE CleanOutline(_, _)
CleanOutline(refined_outline, final_cleaned_outline) ==
    IF refined_outline = <<>> THEN final_cleaned_outline
    ELSE
        LET current_entry == Head(refined_outline)
            prev_entry == final_cleaned_outline[Len(final_cleaned_outline)]
            clamped == [current_entry EXCEPT !.level =
                           LevelStr(ClampLevel(LevelNum(current_entry.level),
                                               LevelNum(prev_entry.level)))]
        IN  IF IsExcludedLabel(clamped.text)
            THEN CleanOutline(Tail(refined_outline), final_cleaned_outline)
            ELSE CleanOutline(Tail(refined_outline), Append(final_cleaned_outline, clamped))

\* _refine_hierarchy
RefineHierarchy(outline_candidates) ==
    LET refined_outline == DropDuplicates(outline_candidates, <<>>)
    IN  IF refined_outline = <<>> THEN <<>>
        ELSE CleanOutline(Tail(refined_outline), <<Head(refined_outline)>>)

(***************************************************************************)
(* PDFOutlineExtractor: body size and heading styles                       *)
(***************************************************************************)
\* the key with the character count alone
BodyKeyVolume(stat) == stat.char_count

\* the key of _determine_body_text_size: char_count - bold_count
BodyKey(stat) == stat.char_count - stat.bold_count

\* max(sizes, key): the first entry, in insertion order, among those of
\* font_stats at the indices I, whose key is the largest
FirstMaxBy(stats, I) ==
    LET best == {i \in I : \A j \in I : BodyKey(stats[j]) <= BodyKey(stats[i])}
    IN  stats[CHOOSE i \in best : \A j \in best : i <= j].size

\* _determine_body_text_size; 11.0 is 110 tenths
DetermineBodyTextSize(stats) ==
    LET body_candidates == {i \in 1..Len(stats) : 80 <= stats[i].size /\ stats[i].size <= 140}
    IN  IF stats = <<>> THEN 110
        ELSE IF body_candidates = {} THEN FirstMaxBy(stats, 1..Len(stats))
        ELSE FirstMaxBy(stats, body_candidates)

\* is_bold_likely: bold_count / max(1, char_count) > 0.6
IsBoldLikely(stat) == 10 * stat.bold_count > 6 * Max2(1, stat.char_count)

\* the test of _identify_heading_styles skipping only the sizes below 0.95
\* times the body size
IsStyleCandidateInclusive(stat, body) ==
    /\ ~(100 * stat.size < 95 * body)
    /\ (10 * stat.size >= min_heading_ratio * body \/ IsBoldLikely(stat))

\* whether _identify_heading_styles takes a size as a heading candidate
IsStyleCandidate(stat, body) ==
    /\ ~(100 * stat.size <= 95 * body)
    /\ (10 * stat.size >= min_heading_ratio * body \/ IsBoldLikely(stat))

\* the entry of heading_candidates for a size; score is the source's score
\* (size_ratio * 50 + 40 if bold) times body_size
StyleOf(stat, body) ==
    [size |-> stat.size,
     is_bold |-> IsBoldLikely(stat),
     score |-> 50 * stat.size + (IF IsBoldLikely(stat) THEN 40 * body ELSE 0),
     char_count |-> stat.char_count]

\* the sort key (-score, -size, -char_count): a comes before b
StyleBefore(a, b) ==
    \/ a.score > b.score
    \/ a.score = b.score /\ a.size > b.size
    \/ a.score = b.score /\ a.size = b.size /\ a.char_count > b.char_count

\* sorted(heading_candidates, key=...): the sort is stable, so of two entries
\* with equal keys the one listed first stays first
RECURSIVE SortStyles(_)
SortStyles(cands) ==
    IF cands = <<>> THEN <<>>
    ELSE
        LET firsts == {i \in 1..Len(cands) :
                          \A j \in 1..Len(cands) : ~StyleBefore(cands[j], cands[i])}
            k == CHOOSE i \in firsts : \A j \in firsts : i <= j
        IN  <<cands[k]>> \o
            SortStyles(SubSeq(cands, 1, k - 1) \o SubSeq(cands, k + 1, Len(cands)))

\* the loop over sorted_candidates: a style is kept when its size is at least
\* 0.5pt away from every size kept, until three are kept
RECURSIVE DistinctStyles(_, _)
DistinctStyles(sorted_candidates, distinct_styles) ==
    IF sorted_candidates = <<>> \/ Len(distinct_styles) >= 3 THEN distinct_styles
    ELSE
        LET style == Head(sorted_candidates)
            is_distinct == \A i \in 1..Len(distinct_styles) :
                               ~(Abs(style.size - distinct_styles[i].size) < 5)
        IN  DistinctStyles(Tail(sorted_candidates),
                           IF is_distinct THEN Append(distinct_styles, style)
                           ELSE distinct_styles)

\* _identify_heading_styles
IdentifyHeadingStyles(stats, body) ==
    LET kept == SelectSeq(stats, LAMBDA stat : IsStyleCandidate(stat, body))
        heading_candidates == [i \in 1..Len(kept) |-> StyleOf(kept[i], body)]
    IN  DistinctStyles(SortStyles(heading_candidates), <<>>)

\* prev_heading_context after a block is accepted
HeadingContext(b, lvl) ==
    [level |-> lvl, size |-> b.size, origin_x |-> b.origin_x,
     origin_y |-> b.origin_y, bbox |-> b.bbox]

(***************************************************************************)
(* The layout of a document (what PyMuPDF and pdfplumber report)           *)
(*                                                                         *)
(* A document is a record                                                  *)
(*   filename  the name of the file in the input directory                 *)
(*   openable  whether the libraries can open the file                     *)
(*   readable  whether the content of its pages can be read                *)
(*   toc       document.get_toc(), each entry reduced to its page number   *)
(*             (1-based; -1 for an entry with no page in the document)     *)
(*   pages     its pages: width, height, widget_area (the summed areas of  *)
(*             the form widgets), image_area (the summed width * height of *)
(*             the images) and lines; a line has a bbox and spans; a span  *)
(*             has text, size, font and bbox                               *)
(***************************************************************************)
\* "".join(span["text"] for span in line["spans"])
RECURSIVE ConcatSpanTexts(_)
ConcatSpanTexts(spans) ==
    IF spans = <<>> THEN <<>> ELSE Head(spans).text \o ConcatSpanTexts(Tail(spans))

\* page.get_text(): the lines of the page, each followed by a newline
RECURSIVE PlainText(_)
PlainText(lines) ==
    IF lines = <<>> THEN <<>>
    ELSE ConcatSpanTexts(Head(lines).spans) \o <<"\n">> \o PlainText(Tail(lines))

\* all the spans of a page, in order
RECURSIVE PageSpans(_)
PageSpans(lines) ==
    IF lines = <<>> THEN <<>> ELSE Head(lines).spans \o PageSpans(Tail(lines))

\* the sum of f[i] over the indices 1..n
RECURSIVE SumTo(_, _)
SumTo(f, n) == IF n = 0 THEN 0 ELSE f[n] + SumTo(f, n - 1)

\* os.path.splitext(os.path.basename(path))[0]: the file name up to its last
\* dot, unless that dot is a leading one
BaseName(filename) ==
    LET lead == Len(filename) - Len(LStripSet(filename, {"."}))
        dots == {i \in (lead + 1)..Len(filename) : filename[i] = "."}
    IN  IF dots = {} THEN filename
        ELSE SubSeq(filename, 1, (CHOOSE i \in dots : \A j \in dots : j <= i) - 1)

(***************************************************************************)
(* cover_page                                                              *)
(***************************************************************************)
TocStartsLaterNever(toc, page_number) == FALSE

\* first_toc_page > 1 and page.number == 0: the table of contents starts
\* after the first page
TocStartsLater(toc, page_number) ==
    /\ toc # <<>>
    /\ ~(toc[1] = page_number + 1 /\ page_number = 0)
    /\ toc[1] > 1
    /\ page_number = 0

\* has_significant_image, with min_image_area_ratio = 0.02
HasSignificantImage(page) ==
    /\ page.width * page.height > 0
    /\ 100 * page.image_area > 2 * (page.width * page.height)

\* line_text of the cover analysis: " ".join(s["text"] for s in spans).strip()
CoverLineText(line) ==
    Strip(Join([i \in 1..Len(line.spans) |-> line.spans[i].text], <<" ">>))

\* ' '.join(text.split())
NormalizeSpaces(text) == Join(Split(text), <<" ">>)

\* max(s["size"] for s in spans)
MaxSize(spans) ==
    CHOOSE m \in {spans[i].size : i \in 1..Len(spans)} :
        \A i \in 1..Len(spans) : spans[i].size <= m

\* size > avg_font_size * 1.2, the average being sum_sizes / count
AboveAverage(size, sum_sizes, count) == 10 * size * count > 12 * sum_sizes

\* body_text_lines_count: the distinct normalized line texts whose largest
\* line size is at most 1.2 times the average and under 0.8 times the
\* maximum, with more than 4 words
BodyTextLinesCount(page) ==
    LET spans == PageSpans(page.lines)
        sum_sizes == SumTo([i \in 1..Len(spans) |-> spans[i].size], Len(spans))
        max_font_size == MaxSize(spans)
        texted == {i \in 1..Len(page.lines) : CoverLineText(page.lines[i]) # <<>>}
        unique_lines == {NormalizeSpaces(CoverLineText(page.lines[i])) : i \in texted}
        SizeOf(t) == CHOOSE m \in {MaxSize(page.lines[i].spans) : i \in texted} :
                        /\ \E i \in texted :
                              /\ NormalizeSpaces(CoverLineText(page.lines[i])) = t
                              /\ MaxSize(page.lines[i].spans) = m
                        /\ \A i \in texted :
                              NormalizeSpaces(CoverLineText(page.lines[i])) = t
                                  => MaxSize(page.lines[i].spans) <= m
    IN  Cardinality({t \in unique_lines :
            /\ ~AboveAverage(SizeOf(t), sum_sizes, Len(spans))
            /\ WordCount(t) > 4
            /\ 10 * SizeOf(t) < 8 * max_font_size})

\* prominent_text_elements_count: the distinct normalized span texts whose
\* size is above 1.2 times the average
ProminentCount(page) ==
    LET spans == PageSpans(page.lines)
        sum_sizes == SumTo([i \in 1..Len(spans) |-> spans[i].size], Len(spans))
    IN  Cardinality({NormalizeSpaces(Strip(spans[i].text)) :
            i \in {j \in 1..Len(spans) :
                      /\ NormalizeSpaces(Strip(spans[j].text)) # <<>>
                      /\ AboveAverage(spans[j].size, sum_sizes, Len(spans))}})

\* main_title_span = max(spans, key=size): the first span of the largest size
MainTitleSpan(spans) ==
    spans[CHOOSE i \in 1..Len(spans) :
            /\ spans[i].size = MaxSize(spans)
            /\ \A j \in 1..(i - 1) : spans[j].size # MaxSize(spans)]

\* is_main_title_centered, with title_centering_threshold = 0.30
IsMainTitleCentered(span, page) ==
    10 * Abs(span.bbox[1] + span.bbox[3] - page.width) < 6 * page.width

\* is_main_title_high_enough, with title_vertical_pos_threshold = 0.5
IsMainTitleHighEnough(span, page) == 2 * span.bbox[2] < page.height

\* the heuristics of _analyze_page_for_cover_characteristics that follow the
\* table-of-contents check, on a page that has spans
CoverHeuristics(page) ==
    LET spans == PageSpans(page.lines)
        sum_sizes == SumTo([i \in 1..Len(spans) |-> spans[i].size], Len(spans))
        has_a_large_font == AboveAverage(MaxSize(spans), sum_sizes, Len(spans))
        body_text_lines_count == BodyTextLinesCount(page)
        prominent_text_elements_count == ProminentCount(page)
        main_title_span == MainTitleSpan(spans)
        is_very_sparse_overall == Len(spans) < 10 /\ body_text_lines_count = 0
        is_likely_cover ==
            /\ body_text_lines_count <= 8
            /\ has_a_large_font
            /\ IsMainTitleCentered(main_title_span, page)
            /\ IsMainTitleHighEnough(main_title_span, page)
            /\ prominent_text_elements_count >= 1
            /\ prominent_text_elements_count <= 15
        is_fallback_cover == is_very_sparse_overall /\ HasSignificantImage(page)
    IN  IF body_text_lines_count > 8 THEN FALSE
        ELSE IF ~(1 <= prominent_text_elements_count /\ prominent_text_elements_count <= 15)
        THEN FALSE
        ELSE is_likely_cover \/ is_fallback_cover

\* _analyze_page_for_cover_characteristics with the default thresholds; a
\* page whose content cannot be read raises, which the function turns into
\* False
AnalyzePageForCover(doc, page_number) ==
    IF TocStartsLater(doc.toc, page_number) THEN TRUE
    ELSE IF ~doc.readable THEN FALSE
    ELSE IF PageSpans(doc.pages[page_number + 1].lines) = <<>>
    THEN HasSignificantImage(doc.pages[page_number + 1])
    ELSE CoverHeuristics(doc.pages[page_number + 1])

\* is_cover_page(pdf_path, page_number=0)
IsCoverPage(doc) ==
    IF ~doc.openable THEN FALSE
    ELSE IF Len(doc.pages) <= 0 THEN FALSE
    ELSE AnalyzePageForCover(doc, 0)

(***************************************************************************)
(* TitleFinder                                                             *)
(***************************************************************************)
\* page.extract_words(extra_attrs=["size", "fontname"]): the words of the
\* spans, each with the size and the font of its span
RECURSIVE SpanWords(_)
SpanWords(spans) ==
    IF spans = <<>> THEN <<>>
    ELSE LET span == Head(spans)
             texts == Split(span.text)
         IN  [i \in 1..Len(texts) |->
                 [text |-> texts[i], size |-> span.size, fontname |-> span.font]]
             \o SpanWords(Tail(spans))

SafeExtractWords(page) == SpanWords(PageSpans(page.lines))

\* _find_first_content_page: the 1-based index of the first page whose text
\* is not blank, 0 when there is none
FindFirstContentPage(doc) ==
    LET content == {i \in 1..Len(doc.pages) :
                       doc.readable /\ Strip(PlainText(doc.pages[i].lines)) # <<>>}
    IN  IF content = {} THEN 0 ELSE CHOOSE i \in content : \A j \in content : i <= j

\* the loop of find_title appending every later word of the current size,
\* whatever its font name
RECURSIVE TitleWordsAnyFont(_, _)
TitleWordsAnyFont(words, cur) ==
    IF words = <<>> THEN cur
    ELSE
        LET word == Head(words)
        IN  IF Len(Strip(word.text)) <= 2 \/ IsDigitStr(word.text)
            THEN TitleWordsAnyFont(Tail(words), cur)
            ELSE IF word.size > cur.size
            THEN TitleWordsAnyFont(Tail(words),
                            [words |-> <<word.text>>, size |-> word.size, name |-> word.fontname])
            ELSE IF word.size = cur.size
            THEN TitleWordsAnyFont(Tail(words),
                                   [cur EXCEPT !.words = Append(cur.words, word.text)])
            ELSE TitleWordsAnyFont(Tail(words), cur)

\* the loop of find_title over the words; cur is current_title_words,
\* current_font_size and current_font_name
RECURSIVE TitleWords(_, _)
TitleWords(words, cur) ==
    IF words = <<>> THEN cur
    ELSE
        LET word == Head(words)
        IN  IF Len(Strip(word.text)) <= 2 \/ IsDigitStr(word.text)
            THEN TitleWords(Tail(words), cur)
            ELSE IF word.size > cur.size
            THEN TitleWords(Tail(words),
                            [words |-> <<word.text>>, size |-> word.size, name |-> word.fontname])
            ELSE IF word.size = cur.size /\ word.fontname = cur.name
            THEN TitleWords(Tail(words), [cur EXCEPT !.words = Append(cur.words, word.text)])
            ELSE TitleWords(Tail(words), cur)

\* _deduplicate_title: re.sub(r'(.)\1{2,}', r'\1', text)
RECURSIVE DeduplicateTitle(_)
DeduplicateTitle(text) ==
    IF text = <<>> THEN <<>>
    ELSE
        LET c == text[1]
            same == {n \in 1..Len(text) : \A i \in 1..n : text[i] = c}
            run == CHOOSE n \in same : \A m \in same : m <= n
        IN  IF c # "\n" /\ run >= 3
            THEN <<c>> \o DeduplicateTitle(SubSeq(text, run + 1, Len(text)))
            ELSE <<c>> \o DeduplicateTitle(Tail(text))

\* self.title after find_title, on a document that opens
TitleOfPage(page) ==
    LET cur == TitleWords(SafeExtractWords(page), [words |-> <<>>, size |-> 0, name |-> <<>>])
    IN  DeduplicateTitle(Strip(Join(cur.words, <<" ">>)))

\* self.title after find_title on a document that opens: it is assigned only
\* when a page with text is found
FinderTitle(doc, self_title) ==
    IF FindFirstContentPage(doc) = 0 THEN self_title
    ELSE TitleOfPage(doc.pages[FindFirstContentPage(doc)])

\* the "title" of the dictionary find_title returns, self.title being
\* self_title after the search: the base name of the file when it is empty
ReturnedTitle(doc, self_title) ==
    IF self_title # <<>> THEN self_title ELSE BaseName(doc.filename)

(***************************************************************************)
(* PDFOutlineExtractor: pages, lines and blocks                            *)
(***************************************************************************)
form_labels ==
    <<<<"n", "a", "m", "e", ":">>,
      <<"d", "a", "t", "e", ":">>,
      <<"s", "i", "g", "n", "a", "t", "u", "r", "e", ":">>,
      <<"a", "d", "d", "r", "e", "s", "s", ":">>,
      <<"p", "h", "o", "n", "e", ":">>,
      <<"e", "m", "a", "i", "l", ":">>,
      <<"i", "d", " ", "n", "u", "m", "b", "e", "r", ":">>,
      <<"s", "s", "n", ":">>,
      <<"a", "c", "c", "o", "u", "n", "t", ":">>>>

\* form_indications of _is_form_page
FormIndications(text) ==
    CountSub(text, <<":", "_", "_", "_", "_", "_">>)
    + CountSub(text, <<":", " ", "_", "_", "_">>)
    + CountSub(text, <<":", "\n">>)
    + SumTo([i \in 1..Len(form_labels) |-> CountSub(Lower(text), form_labels[i])],
            Len(form_labels))
    + (IF \/ Contains(text, <<"|", " ", " ", " ", "|">>)
          \/ Contains(text, <<"|", "_", "_", "_", "|">>)
          \/ Contains(text, <<"_", "_", "_", " ", "_", "_", "_", " ", "_", "_", "_", " ">>)
       THEN 3 ELSE 0)

\* the widget test of _is_form_page: form_area / page_area > 0.15, the page
\* area being that of self.page_dimensions
WidgetsCoverPage(page, dims) ==
    /\ page.widget_area > 0
    /\ 100 * page.widget_area > form_field_threshold * (dims[1] * dims[2])

\* _is_form_page
IsFormPage(page, dims) ==
    \/ WidgetsCoverPage(page, dims)
    \/ FormIndications(PlainText(page.lines)) >= 3

\* _is_header_footer
IsHeaderFooter(line_bbox, dims) ==
    \/ 10 * line_bbox[2] < header_footer_threshold * dims[2]
    \/ 10 * line_bbox[2] > (10 - header_footer_threshold) * dims[2]
    \/ Abs(line_bbox[1] + line_bbox[3] - dims[1]) < 40

\* self.font_stats[font_size]['char_count'] += n, and the same for
\* bold_count when the span is bold; a new size goes to the end
AddStat(stats, size, n, is_bold) ==
    LET at == {i \in 1..Len(stats) : stats[i].size = size}
        add == IF is_bold THEN n ELSE 0
    IN  IF at = {}
        THEN Append(stats, [size |-> size, char_count |-> n, bold_count |-> add])
        ELSE [i \in 1..Len(stats) |->
                 IF i \in at
                 THEN [stats[i] EXCEPT !.char_count = @ + n, !.bold_count = @ + add]
                 ELSE stats[i]]

\* the loop over the spans of a line in _analyze_document_styles
RECURSIVE AnalyzeSpans(_, _)
AnalyzeSpans(spans, stats) ==
    IF spans = <<>> THEN stats
    ELSE
        LET span == Head(spans)
            text == Strip(span.text)
        IN  AnalyzeSpans(Tail(spans),
                         IF text = <<>> THEN stats
                         ELSE AddStat(stats, span.size, Len(text), IsBoldFont(span.font)))

\* the loop over the lines of a page in _analyze_document_styles
RECURSIVE AnalyzeLines(_, _, _)
AnalyzeLines(lines, dims, stats) ==
    IF lines = <<>> THEN stats
    ELSE
        LET line == Head(lines)
        IN  AnalyzeLines(Tail(lines), dims,
                         IF line.spans = <<>> \/ IsHeaderFooter(line.bbox, dims) THEN stats
                         ELSE AnalyzeSpans(line.spans, stats))

\* size_counter, bold_counter and line_text after the loop over the spans of
\* a line in _get_clean_text_blocks; a counter is a sequence of [key, count]
\* in insertion order
CounterAdd(counter, key, n) ==
    IF \E i \in 1..Len(counter) : counter[i].key = key
    THEN [i \in 1..Len(counter) |->
             IF counter[i].key = key THEN [counter[i] EXCEPT !.count = @ + n]
             ELSE counter[i]]
    ELSE Append(counter, [key |-> key, count |-> n])

\* counter.most_common(1)[0][0]: the first key whose count is the largest
MostCommon(counter) ==
    counter[CHOOSE i \in 1..Len(counter) :
               /\ \A j \in 1..Len(counter) : counter[j].count <= counter[i].count
               /\ \A j \in 1..(i - 1) : counter[j].count < counter[i].count].key

RECURSIVE LineSpans(_, _)
LineSpans(spans, acc) ==
    IF spans = <<>> THEN acc
    ELSE
        LET span == Head(spans)
        IN  LineSpans(Tail(spans),
                      IF Strip(span.text) = <<>> THEN acc
                      ELSE [line_text |-> acc.line_text \o span.text,
                            size_counter |-> CounterAdd(acc.size_counter, span.size,
                                                        Len(span.text)),
                            bold_counter |-> CounterAdd(acc.bold_counter,
                                                        IsBoldFont(span.font),
                                                        Len(span.text))])

\* line_info of _get_clean_text_blocks
LineInfo(line) ==
    LET acc == LineSpans(line.spans,
                         [line_text |-> <<>>, size_counter |-> <<>>, bold_counter |-> <<>>])
    IN  [text |-> Strip(acc.line_text),
         size |-> IF acc.size_counter = <<>> THEN 0 ELSE MostCommon(acc.size_counter),
         is_bold |-> IF acc.bold_counter = <<>> THEN FALSE ELSE MostCommon(acc.bold_counter),
         bbox |-> line.bbox,
         origin_x |-> line.bbox[1],
         origin_y |-> line.bbox[2]]

\* whether _get_clean_text_blocks merges a line into the block in hand
MergesInto(line_info, current_merged_block) ==
    /\ Abs(line_info.origin_y - current_merged_block.bbox[4]) < line_merge_tolerance_y
    /\ Abs(line_info.size - current_merged_block.size) < 5
    /\ line_info.is_bold = current_merged_block.is_bold
    /\ Abs(line_info.origin_x - current_merged_block.origin_x) < line_merge_tolerance_x

\* the loop over the lines in _get_clean_text_blocks; current is <<>> (None)
\* or <<current_merged_block>>
RECURSIVE MergeLines(_, _, _, _)
MergeLines(lines, dims, blocks, current) ==
    IF lines = <<>> THEN blocks \o current
    ELSE
        LET line == Head(lines)
            line_info == LineInfo(line)
        IN  IF line.spans = <<>> \/ IsHeaderFooter(line.bbox, dims)
            THEN MergeLines(Tail(lines), dims, blocks, current)
            ELSE IF line_info.text = <<>>
            THEN MergeLines(Tail(lines), dims, blocks, current)
            ELSE IF current = <<>>
            THEN MergeLines(Tail(lines), dims, blocks, <<line_info>>)
            ELSE IF MergesInto(line_info, current[1])
            THEN MergeLines(Tail(lines), dims, blocks,
                            <<[current[1] EXCEPT
                                  !.text = @ \o <<" ">> \o line_info.text,
                                  !.bbox = [@ EXCEPT ![4] = line_info.bbox[4]],
                                  !.origin_y = line_info.origin_y]>>)
            ELSE MergeLines(Tail(lines), dims, blocks \o current, <<line_info>>)

\* _get_clean_text_blocks
GetCleanTextBlocks(page, dims) == MergeLines(page.lines, dims, <<>>, <<>>)

\* the loop over the blocks of a page in _extract_headings_from_content; acc
\* is outline_candidates and prev_heading_context
RECURSIVE ScanBlocksOfPage(_, _, _, _, _, _)
ScanBlocksOfPage(blocks, page_idx, body, styles, dims, acc) ==
    IF blocks = <<>> THEN acc
    ELSE
        LET b == Head(blocks)
            lvl == DetermineHeadingLevel(b, styles, acc.prev_heading_context, dims[1])
        IN  ScanBlocksOfPage(Tail(blocks), page_idx, body, styles, dims,
                IF IsHeadingCandidate(b, body)
                THEN [outline_candidates |->
                          Append(acc.outline_candidates,
                                 [level |-> lvl, text |-> b.text, page |-> page_idx]),
                      prev_heading_context |-> <<HeadingContext(b, lvl)>>]
                ELSE acc)

\* the loop over the pages in _extract_headings_from_content, from the page
\* index page_idx on
RECURSIVE ScanPages(_, _, _, _, _, _)
ScanPages(pages, page_idx, body, styles, dims, acc) ==
    IF page_idx >= Len(pages) THEN acc
    ELSE ScanPages(pages, page_idx + 1, body, styles, dims,
                   IF IsFormPage(pages[page_idx + 1], dims) THEN acc
                   ELSE ScanBlocksOfPage(GetCleanTextBlocks(pages[page_idx + 1], dims),
                                         page_idx, body, styles, dims, acc))

StartPageIdxZero(cover) == 0

\* start_page_idx
StartPageIdx(cover) == IF cover THEN 1 ELSE 0

\* _extract_headings_from_content
ExtractHeadingsFromContent(pages, stats, dims, cover) ==
    IF stats = <<>> THEN <<>>
    ELSE IF IdentifyHeadingStyles(stats, DetermineBodyTextSize(stats)) = <<>> THEN <<>>
    ELSE ScanPages(pages, StartPageIdx(cover), DetermineBodyTextSize(stats),
                   IdentifyHeadingStyles(stats, DetermineBodyTextSize(stats)), dims,
                   [outline_candidates |-> <<>>, prev_heading_context |-> <<>>]).outline_candidates

\* the value extract_outline returns: a list of entries (lines 67-69), or
\* the dictionary {"title": ..., "outline": []} of lines 55 and 72
PyList(items) == [kind |-> "list", title |-> <<>>, items |-> items]

PyDict(fallback_title) == [kind |-> "dict", title |-> fallback_title, items |-> <<>>]

\* self.document_title if self.document_title else the base name of the file
FallbackTitle(doc_title, filename) ==
    IF doc_title # <<>> THEN doc_title ELSE BaseName(filename)

(***************************************************************************)
(* State                                                                   *)
(***************************************************************************)
VARIABLES
    pc,                     \* the position of the program
    \* main and process_pdf
    input_dir,              \* the documents of the batch, in os.listdir order
    doc_idx,                \* the index in input_dir of the document in process
    finder_title,           \* the TitleFinder instance: self.title
    title,                  \* process_pdf: title
    is_first_page_cover,    \* process_pdf: is_first_page_cover
    outline,                \* process_pdf: outline, as extract_outline returned it
    records,                \* the result records written so far, in order
    \* the PDFOutlineExtractor instance
    document_title,         \* self.document_title
    font_stats,             \* self.font_stats, in insertion order
    page_dimensions,        \* self.page_dimensions
    page_num,               \* _analyze_document_styles: the loop index i
    stat_pages,             \* the page indices whose runs were added to font_stats
    \* _extract_headings_from_content and its callees
    body_size,
    heading_styles,
    prev_heading_context,   \* <<>> (None) or <<context>>
    block,                  \* the block in hand
    accepted,               \* what _is_heading_candidate returned for it
    level,                  \* what _determine_heading_level returned for it
    \* _refine_hierarchy
    outline_candidates,
    final_cleaned_outline,
    \* cover_page._analyze_page_for_cover_characteristics
    cover_doc,              \* its document
    cover_result,           \* what it returned
    \* TitleFinder.find_title
    pdf_path                \* the document at pdf_path

mainVars == <<input_dir, doc_idx, finder_title, title, is_first_page_cover, outline, records>>

extractorVars == <<document_title, font_stats, page_dimensions, page_num, stat_pages>>

headingVars == <<body_size, heading_styles, prev_heading_context, block, accepted, level>>

refineVars == <<outline_candidates, final_cleaned_outline>>

coverVars == <<cover_doc, cover_result>>

finderVars == <<pdf_path>>

vars == <<pc, mainVars, extractorVars, headingVars, refineVars, coverVars, finderVars>>

\* the values of the variables a specification does not use
MainIdle ==
    /\ input_dir = <<>>
    /\ doc_idx = 0
    /\ finder_title = <<>>
    /\ title = <<>>
    /\ is_first_page_cover = FALSE
    /\ outline = <<>>
    /\ records = <<>>

ExtractorIdle ==
    /\ document_title = <<>>
    /\ font_stats = <<>>
    /\ page_dimensions = <<0, 0>>
    /\ page_num = 0
    /\ stat_pages = {}

HeadingIdle ==
    /\ body_size = 0
    /\ heading_styles = <<>>
    /\ prev_heading_context = <<>>
    /\ block = <<>>
    /\ accepted = FALSE
    /\ level = <<>>

RefineIdle ==
    /\ outline_candidates = <<>>
    /\ final_cleaned_outline = <<>>

CoverIdle ==
    /\ cover_doc = <<>>
    /\ cover_result = FALSE

FinderIdle == pdf_path = <<>>

(***************************************************************************)
(* _refine_hierarchy on every candidate sequence                           *)
(***************************************************************************)
\* the longest candidate sequence
MaxCands == 3

\* the texts of the candidates: two headings and a tabular-field label
RefineTexts == {<<"A">>, <<"B">>, <<"T", "o", "t", "a", "l">>}

RefinePages == {0, 1}

OutlineEntries ==
    [level : {LevelStr(n) : n \in 1..3}, text : RefineTexts, page : RefinePages]

\* the candidate sequences _extract_headings_from_content can return: it goes
\* through the pages in increasing order (line 130), so the page numbers of
\* the candidates never decrease
CandidateSeqs ==
    {c \in UNION {[1..n -> OutlineEntries] : n \in 0..MaxCands} :
        \A i \in 1..(Len(c) - 1) : c[i].page <= c[i + 1].page}

InitRefine ==
    /\ pc = "call"
    /\ outline_candidates \in CandidateSeqs
    /\ final_cleaned_outline = <<>>
    /\ MainIdle /\ ExtractorIdle /\ HeadingIdle /\ CoverIdle /\ FinderIdle

\* refined_outline = self._refine_hierarchy(outline_candidates)
Refine ==
    /\ pc = "call"
    /\ final_cleaned_outline' = RefineHierarchy(outline_candidates)
    /\ pc' = "return"
    /\ UNCHANGED <<outline_candidates, mainVars, extractorVars, headingVars, coverVars, finderVars>>

NextRefine == Refine

SpecRefine == InitRefine /\ [][NextRefine]_vars

Entry(n, text, page) == [level |-> LevelStr(n), text |-> text, page |-> page]

\* C1: in the outline _refine_hierarchy returns, the depth of each entry is at
\* most the depth of the entry immediately before it plus one
C1_DepthStep ==
    pc = "return" =>
        \A i \in 1..(Len(final_cleaned_outline) - 1) :
            LevelNum(final_cleaned_outline[i + 1].level)
                - LevelNum(final_cleaned_outline[i].level) <= 1

\* C1 witness: a label between an H1 and an H3 is dropped, and the H3 is
\* clamped against the H1
C1_Witness ==
    /\ pc = "return"
    /\ outline_candidates = <<Entry(1, <<"A">>, 0),
                              Entry(2, <<"T", "o", "t", "a", "l">>, 0),
                              Entry(3, <<"B">>, 0)>>
    /\ final_cleaned_outline = <<Entry(1, <<"A">>, 0), Entry(2, <<"B">>, 0)>>

\* the input of C2: [(H1,"A",0), (H3,"B",0), (H1,"A",0)]
C2_Input == <<Entry(1, <<"A">>, 0), Entry(3, <<"B">>, 0), Entry(1, <<"A">>, 0)>>

\* C2 as stated: the refiner returns [(H1,"A",0), (H2,"B",0)] on C2_Input
C2_Original ==
    (pc = "return" /\ outline_candidates = C2_Input) =>
        final_cleaned_outline = <<Entry(1, <<"A">>, 0), Entry(2, <<"B">>, 0)>>

\* C2 amended: the refiner returns [(H1,"A",0), (H2,"B",0), (H1,"A",0)] on
\* C2_Input: the H3 is clamped to H2, and the second (H1,"A",0), which does not
\* follow the first one immediately, is kept
C2_Amended ==
    (pc = "return" /\ outline_candidates = C2_Input) =>
        final_cleaned_outline =
            <<Entry(1, <<"A">>, 0), Entry(2, <<"B">>, 0), Entry(1, <<"A">>, 0)>>

\* C2 witness: the refiner has run on C2_Input
C2_Witness == pc = "return" /\ outline_candidates = C2_Input

\* the entry's text is a single word of the tabular-field labels once lowered
\* and stripped of punctuation
IsLabelEntry(entry) ==
    LET cleaned_text_lower == CleanedTextLower(entry.text)
    IN  /\ WordCount(cleaned_text_lower) = 1
        /\ cleaned_text_lower \in common_short_words_to_exclude

\* C15: every entry of the refined outline that is a single-word tabular-field
\* label carries a numbering prefix, at every position including the first
C15_NoUnnumberedLabel ==
    pc = "return" =>
        \A i \in 1..Len(final_cleaned_outline) :
            IsLabelEntry(final_cleaned_outline[i])
                => HasNumberPrefix(final_cleaned_outline[i].text)

\* C15 witness: the refiner has run on candidates that start with the label
\* "Total" and has kept it as the first entry, and only there
C15_Witness ==
    /\ pc = "return"
    /\ Len(outline_candidates) = MaxCands
    /\ \A i \in 1..MaxCands : IsLabelEntry(outline_candidates[i])
    /\ Len(final_cleaned_outline) = 1
    /\ IsLabelEntry(final_cleaned_outline[1])
    /\ ~HasNumberPrefix(final_cleaned_outline[1].text)

\* the positions in the candidate sequence of the entries of the outline: the
\* strictly increasing maps under which each entry of the outline has the text
\* and the page of its candidate
CandidatePositions ==
    {f \in [1..Len(final_cleaned_outline) -> 1..Len(outline_candidates)] :
        /\ \A i \in 1..(Len(final_cleaned_outline) - 1) : f[i] < f[i + 1]
        /\ \A i \in 1..Len(final_cleaned_outline) :
               /\ final_cleaned_outline[i].text = outline_candidates[f[i]].text
               /\ final_cleaned_outline[i].page = outline_candidates[f[i]].page}

\* C21: the outline _refine_hierarchy returns is an order-preserving
\* subsequence of the candidates, each entry with the text and the page of its
\* candidate, and its page numbers never decrease
C21_OrderedSubsequence ==
    pc = "return" =>
        /\ Len(final_cleaned_outline) <= Len(outline_candidates)
        /\ CandidatePositions # {}
        /\ \A i \in 1..(Len(final_cleaned_outline) - 1) :
               final_cleaned_outline[i].page <= final_cleaned_outline[i + 1].page

\* C21 witness: of an H1 on page 0, the same H1 again, and an H3 on page 1,
\* the duplicate has been dropped and the H3 clamped, the two entries left
\* keeping their order, texts and pages
C21_Witness ==
    /\ pc = "return"
    /\ outline_candidates = <<Entry(1, <<"A">>, 0), Entry(1, <<"A">>, 0),
                              Entry(3, <<"B">>, 1)>>
    /\ final_cleaned_outline = <<Entry(1, <<"A">>, 0), Entry(2, <<"B">>, 1)>>

\* two entries with the same text, the same level and the same page
SameEntry(a, b) == a.text = b.text /\ a.level = b.level /\ a.page = b.page

\* C22: the outline _refine_hierarchy returns holds no two adjacent entries
\* with the same text, the same level and the same page
C22_NoAdjacentDuplicates ==
    pc = "return" =>
        \A i \in 1..(Len(final_cleaned_outline) - 1) :
            ~SameEntry(final_cleaned_outline[i], final_cleaned_outline[i + 1])

\* C22 witness: of an H1, an H3 and an H2 with the text of the H3, none equal
\* to its neighbour, the H3 has been clamped to H2 and the outline ends with
\* two equal entries
C22_Witness ==
    /\ pc = "return"
    /\ outline_candidates = <<Entry(1, <<"B">>, 0), Entry(3, <<"A">>, 0),
                              Entry(2, <<"A">>, 0)>>
    /\ final_cleaned_outline = <<Entry(1, <<"B">>, 0), Entry(2, <<"A">>, 0),
                                 Entry(2, <<"A">>, 0)>>

(***************************************************************************)
(* _is_heading_candidate on every block                                    *)
(***************************************************************************)
\* the longest generated text
MaxTextLen == 5

\* the characters of the generated texts: an upper-case letter, a lower-case
\* letter and the space
TextAlphabet == {"A", "b", " "}

\* a block's text is a stripped, non-empty line or lines joined by one space
GeneratedTexts ==
    {t \in UNION {[1..n -> TextAlphabet] : n \in 1..MaxTextLen} :
        t[1] # " " /\ t[Len(t)] # " "}

Text_Introduction ==
    <<"1", ".", " ", "I", "n", "t", "r", "o", "d", "u", "c", "t", "i", "o", "n">>

Text_SpacedTitle ==
    <<"T", " ", "H", " ", "I", " ", "S", " ", " ", " ", "I", " ", "S", " ", " ", " ",
      "A", " ", " ", " ", "T", " ", "I", " ", "T", " ", "L", " ", "E">>

Text_Sentence ==
    <<"T", "h", "i", "s", " ", "i", "s", " ", "a", " ", "l", "o", "n", "g", " ",
      "s", "e", "n", "t", "e", "n", "c", "e", " ", "h", "e", "r", "e", ".">>

Text_total == <<"t", "o", "t", "a", "l">>

Text_NameColon == <<"N", "a", "m", "e", ":">>

\* a text of 101 characters
Text_LongHeading ==
    <<"O", "v", "e", "r", "v", "i", "e", "w", " ", "o", "f", " ", "t", "h", "e", " ",
      "m", "e", "a", "s", "u", "r", "e", "m", "e", "n", "t", " ", "p", "r", "o", "g",
      "r", "a", "m", "m", "e", " ", "a", "n", "d", " ", "o", "f", " ", "t", "h", "e",
      " ", "s", "t", "a", "t", "i", "s", "t", "i", "c", "a", "l", " ", "m", "e", "t",
      "h", "o", "d", "s", " ", "t", "h", "a", "t", " ", "w", "e", "r", "e", " ", "a",
      "p", "p", "l", "i", "e", "d", " ", "t", "o", " ", "t", "h", "e", " ", "r", "e",
      "s", "u", "l", "t", "s">>

\* its first 100 characters
Text_LongHeading100 == SubSeq(Text_LongHeading, 1, 100)

Text_PipeRow ==
    <<"I", "t", "e", "m", " ", "|", " ", "C", "o", "s", "t">>

Text_ResultsColon ==
    <<"S", "u", "m", "m", "a", "r", "y", " ", "o", "f", " ", "r", "e", "s", "u", "l",
      "t", "s", ":">>

NamedTexts ==
    {Text_Introduction, Text_SpacedTitle, Text_Sentence, Text_total, Text_NameColon,
     Text_LongHeading, Text_LongHeading100, Text_PipeRow, Text_ResultsColon}

\* the sizes of the blocks, in tenths of a point, around the thresholds for a
\* body size of 10pt: 1.0, 1.05, 1.06, 1.3, 1.4 and 2 times the body size
CandidateSizes == {100, 105, 106, 130, 140, 200}

CandidateBlocks ==
    {[text |-> t, size |-> s, is_bold |-> b, bbox |-> <<72, 200, 300, 220>>,
      origin_x |-> 72, origin_y |-> 200] :
        t \in GeneratedTexts \cup NamedTexts, s \in CandidateSizes, b \in BOOLEAN}

InitCandidate ==
    /\ pc = "call"
    /\ block \in CandidateBlocks
    /\ body_size = 100
    /\ heading_styles = <<>>
    /\ prev_heading_context = <<>>
    /\ accepted = FALSE
    /\ level = <<>>
    /\ MainIdle /\ ExtractorIdle /\ RefineIdle /\ CoverIdle /\ FinderIdle

\* self._is_heading_candidate(block, body_size)
Classify ==
    /\ pc = "call"
    /\ accepted' = IsHeadingCandidate(block, body_size)
    /\ pc' = "return"
    /\ UNCHANGED <<body_size, heading_styles, prev_heading_context, block, level,
                   mainVars, extractorVars, refineVars, coverVars, finderVars>>

NextCandidate == Classify

SpecCandidate == InitCandidate /\ [][NextCandidate]_vars

C14_SentenceRejected ==
    (/\ pc = "return"
     /\ block.text = Text_Sentence
     /\ ~block.is_bold
     /\ 10 * block.size = 14 * body_size)
        => ~accepted

\* C14 witness: the sentence has been classified at 1.4 times the body size,
\* looks like a sentence, is not all upper-case and has no numbering prefix,
\* and has been accepted
C14_Witness ==
    /\ pc = "return"
    /\ block.text = Text_Sentence
    /\ ~block.is_bold
    /\ 10 * block.size = 14 * body_size
    /\ LooksLikeSentence(block.text, WordCount(CleanedTextForComparison(block.text)))
    /\ ~IsUpperStr(block.text)
    /\ ~HasNumberPrefix(block.text)
    /\ accepted

\* C17: every block _is_heading_candidate accepts has a size of at least 1.3
\* times the body size, or is bold with a size above 1.05 times the body size;
\* its text has at most 100 characters, does not end with ':' and holds no '|'
C17_AcceptedPassesGate ==
    (pc = "return" /\ accepted) =>
        LET text == Strip(block.text)
        IN  /\ \/ 10 * block.size >= 13 * body_size
               \/ block.is_bold /\ 100 * block.size > 105 * body_size
            /\ Len(text) <= 100
            /\ text[Len(text)] # ":"
            /\ \A i \in 1..Len(text) : text[i] # "|"

\* C17 witness: the text of exactly 100 characters has been accepted through
\* the bold branch of the gate, below 1.3 times the body size
C17_Witness ==
    /\ pc = "return"
    /\ block.text = Text_LongHeading100
    /\ block.is_bold
    /\ 100 * block.size = 106 * body_size
    /\ accepted

(***************************************************************************)
(* _extract_headings_from_content: the scan of the blocks                  *)
(*                                                                         *)
(* This specification keeps the previous heading's context, which is all   *)
(* the scan reads of the candidates found so far; the list of candidates   *)
(* itself is kept by the specification of the whole pipeline.              *)
(***************************************************************************)
\* one entry of font_stats
Stat(size, char_count, bold_count) ==
    [size |-> size, char_count |-> char_count, bold_count |-> bold_count]

\* the entries a size can have in the generated font statistics: none, mostly
\* plain, all bold
StatChoices(size) == {<<>>, <<Stat(size, 10, 0)>>, <<Stat(size, 10, 10)>>}

\* the generated font statistics: none at all, or 10pt body text with any of
\* 14pt, 16pt and 20pt text
FontStatTables ==
    {<<>>} \cup
    {<<Stat(100, 100, 0)>> \o a \o b \o c :
        a \in StatChoices(140), b \in {<<>>, <<Stat(160, 10, 10)>>}, c \in StatChoices(200)}

Text_Scope == <<"2", ".", "1", " ", "S", "c", "o", "p", "e">>

Text_Overview == <<"O", "v", "e", "r", "v", "i", "e", "w">>

ScanTexts == {Text_Introduction, Text_Scope, Text_Overview, Text_NameColon}

\* the blocks of the scan: left of the margin, at the margin (the only origin
\* that is strongly left-aligned on a 612pt page) or indented, high or low on
\* the page
ScanBlocks ==
    {[text |-> t, size |-> s, is_bold |-> b, bbox |-> <<x, y, x + 200, y + 20>>,
      origin_x |-> x, origin_y |-> y] :
        t \in ScanTexts, s \in {100, 130, 140, 200}, b \in BOOLEAN,
        x \in {30, 60, 100}, y \in {100, 400}}

InitHeading ==
    /\ pc = "headings"
    /\ font_stats \in FontStatTables
    /\ page_dimensions = <<612, 792>>
    /\ document_title = <<>>
    /\ page_num = 0
    /\ stat_pages = {}
    /\ HeadingIdle
    /\ MainIdle /\ RefineIdle /\ CoverIdle /\ FinderIdle

\* lines 116-128: the early returns, body size and heading styles
BeginHeadings ==
    /\ pc = "headings"
    /\ LET body == DetermineBodyTextSize(font_stats)
           styles == IdentifyHeadingStyles(font_stats, body)
       IN  IF font_stats = <<>>
           THEN pc' = "return" /\ UNCHANGED <<body_size, heading_styles>>
           ELSE /\ body_size' = body
                /\ heading_styles' = styles
                /\ pc' = IF styles = <<>> THEN "return" ELSE "scan"
    /\ prev_heading_context' = <<>>
    /\ UNCHANGED <<block, accepted, level, mainVars, extractorVars, refineVars, coverVars, finderVars>>

\* lines 138-140: the next block is classified and, when accepted, given a level
ScanBlock ==
    /\ pc = "scan"
    /\ \E b \in ScanBlocks :
        /\ block' = b
        /\ accepted' = IsHeadingCandidate(b, body_size)
        /\ level' = IF accepted'
                    THEN DetermineHeadingLevel(b, heading_styles, prev_heading_context,
                                               page_dimensions[1])
                    ELSE <<>>
    /\ pc' = "classified"
    /\ UNCHANGED <<body_size, heading_styles, prev_heading_context,
                   mainVars, extractorVars, refineVars, coverVars, finderVars>>

\* lines 142-155: the accepted block becomes the previous heading
AppendEntry ==
    /\ pc = "classified"
    /\ accepted
    /\ prev_heading_context' = <<HeadingContext(block, level)>>
    /\ block' = <<>>
    /\ accepted' = FALSE
    /\ level' = <<>>
    /\ pc' = "scan"
    /\ UNCHANGED <<body_size, heading_styles, mainVars, extractorVars, refineVars, coverVars, finderVars>>

\* line 139: a block that is no candidate is passed over
SkipBlock ==
    /\ pc = "classified"
    /\ ~accepted
    /\ block' = <<>>
    /\ pc' = "scan"
    /\ UNCHANGED <<body_size, heading_styles, prev_heading_context, accepted, level,
                   mainVars, extractorVars, refineVars, coverVars, finderVars>>

NextHeading == BeginHeadings \/ ScanBlock \/ AppendEntry \/ SkipBlock

SpecHeading == InitHeading /\ [][NextHeading]_vars

\* C7: "1. Introduction", not bold, at 1.4 times the body size, scanned when no
\* heading precedes it, is accepted and given the level H1, whatever the heading
\* styles are: under the style table of the document, and under the empty one
C7_IntroductionIsH1 ==
    (/\ pc = "classified"
     /\ block.text = Text_Introduction
     /\ ~block.is_bold
     /\ 10 * block.size = 14 * body_size
     /\ prev_heading_context = <<>>)
        => /\ accepted
           /\ level = LevelStr(1)
           /\ DetermineHeadingLevel(block, <<>>, <<>>, page_dimensions[1]) = LevelStr(1)

\* C7 witness: the block has been accepted as the first candidate under a table
\* whose first style is 20pt, a size the block is far from
C7_Witness ==
    /\ pc = "classified"
    /\ block.text = Text_Introduction
    /\ ~block.is_bold
    /\ 10 * block.size = 14 * body_size
    /\ prev_heading_context = <<>>
    /\ heading_styles[1].size = 200
    /\ level = LevelStr(1)

\* the previous accepted heading of the scan
PrevHeading == prev_heading_context[1]

\* a block has just been accepted after an earlier accepted heading
AcceptedAfterHeading ==
    /\ pc = "classified"
    /\ accepted
    /\ prev_heading_context # <<>>

\* C11: the depth given to an accepted candidate is 1, 2 or 3 and, when an
\* accepted heading precedes it, at most that heading's depth plus 1
C11_DepthBounded ==
    (pc = "classified" /\ accepted)
        => /\ LevelNum(level) \in 1..3
           /\ prev_heading_context # <<>>
                => LevelNum(level) <= LevelNum(PrevHeading.level) + 1

\* C11 witness: a candidate indented against an H3 heading, which the
\* indentation rule puts at depth 4 and the cap brings back to H3
C11_Witness ==
    /\ AcceptedAfterHeading
    /\ PrevHeading.level = LevelStr(3)
    /\ block.origin_x > PrevHeading.origin_x + indentation_threshold
    /\ level = LevelStr(3)

\* the candidate starts more than 25pt to the right of the previous heading
Indented == block.origin_x > PrevHeading.origin_x + indentation_threshold

\* the candidate is strongly left-aligned on its page
LeftAligned == IsStronglyLeftAligned(block.origin_x, page_dimensions[1])

\* the candidate is more than 1.5 times the size of the previous heading
MuchLarger == 2 * block.size > 3 * PrevHeading.size

\* the candidate is smaller than 0.9 times the size of the previous heading
Smaller == 10 * block.size < 9 * PrevHeading.size

\* the candidate starts more than 2.5 times its size below the previous
\* heading's bottom
Gapped == 4 * (block.origin_y - PrevHeading.bbox[4]) > block.size

\* C12 as stated: a candidate indented by more than 25pt against the previous
\* accepted heading gets a depth of at least that heading's depth plus 1
C12_Original ==
    (AcceptedAfterHeading /\ Indented)
        => LevelNum(level) >= LevelNum(PrevHeading.level) + 1

\* C12: a candidate indented by more than 25pt against the previous accepted
\* heading gets depth 1 when it is strongly left-aligned and either much
\* larger than that heading, or gapped from it and not smaller; otherwise it
\* gets that heading's depth plus 1, capped at 3
C12_Amended ==
    (AcceptedAfterHeading /\ Indented)
        => LevelNum(level) =
            IF LeftAligned /\ (MuchLarger \/ (Gapped /\ ~Smaller))
            THEN 1
            ELSE Min2(LevelNum(PrevHeading.level) + 1, 3)

\* C12 witness: an indented, strongly left-aligned candidate far below an H2
\* heading is reset to H1
C12_Witness ==
    /\ AcceptedAfterHeading
    /\ Indented /\ LeftAligned /\ Gapped /\ ~MuchLarger
    /\ PrevHeading.level = LevelStr(2)
    /\ level = LevelStr(1)

\* C13 as stated: a strongly left-aligned candidate more than 2.5 times its
\* size below the previous accepted heading gets depth 1
C13_Original ==
    (AcceptedAfterHeading /\ LeftAligned /\ Gapped) => level = LevelStr(1)

\* C13: a strongly left-aligned candidate more than 2.5 times its size below
\* the previous accepted heading gets depth 1, unless it is smaller than 0.9
\* times that heading's size: then it gets that heading's depth plus 1, capped
\* at 3
C13_Amended ==
    (AcceptedAfterHeading /\ LeftAligned /\ Gapped)
        => LevelNum(level) =
            IF Smaller THEN Min2(LevelNum(PrevHeading.level) + 1, 3) ELSE 1

\* C13 witness: a left-aligned, gapped candidate that is not indented and not
\* smaller than the previous heading, which the style table alone would put
\* deeper than 1, comes out H1
C13_Witness ==
    /\ AcceptedAfterHeading
    /\ LeftAligned /\ Gapped /\ ~Smaller /\ ~Indented /\ ~MuchLarger
    /\ StyleLevel(block, heading_styles, PrefixLevel(Strip(block.text))) > 1
    /\ level = LevelStr(1)

(***************************************************************************)
(* SpecCover: is_cover_page on generated first pages                       *)
(***************************************************************************)
MaxCoverLines == 2

Font_Helvetica == <<"H", "e", "l", "v", "e", "t", "i", "c", "a">>

Font_HelveticaBold == <<"H", "e", "l", "v", "e", "t", "i", "c", "a", "-", "B", "o", "l", "d">>

Text_AnnualReport == <<"A", "n", "n", "u", "a", "l", " ", "R", "e", "p", "o", "r", "t">>

Text_AcmeCorp == <<"A", "c", "m", "e", " ", "C", "o", "r", "p">>

Text_BodyLine == <<"T", "h", "i", "s", " ", "i", "s", " ", "t", "h", "e", " ", "b", "o", "d", "y", " ", "t", "e", "x", "t", " ", "h", "e", "r", "e">>

\* a line of one span
OneSpanLine(text, size, font, bbox) ==
    [bbox |-> bbox,
     spans |-> <<[text |-> text, size |-> size, font |-> font, bbox |-> bbox]>>]

Page(width, height, widget_area, image_area, lines) ==
    [width |-> width, height |-> height, widget_area |-> widget_area,
     image_area |-> image_area, lines |-> lines]

\* a left-aligned line of one span on a page 612pt wide, yt tenths high
LeftLine(text, size, font, y) == OneSpanLine(text, size, font, <<72, y, 300, y + size \div 10>>)

\* a 36pt line centred in the upper half of a 612 x 792 page
CenteredTitleLine == OneSpanLine(Text_AnnualReport, 360, Font_HelveticaBold, <<156, 200, 456, 236>>)

\* the lines a generated first page is made of: the 36pt line centred and
\* high, centred and low, high at the left edge; a 12pt line of two words; a
\* 12pt line of six words
CoverLineChoices ==
    {CenteredTitleLine,
     OneSpanLine(Text_AnnualReport, 360, Font_HelveticaBold, <<156, 500, 456, 536>>),
     OneSpanLine(Text_AnnualReport, 360, Font_HelveticaBold, <<20, 200, 100, 236>>),
     OneSpanLine(Text_AcmeCorp, 120, Font_Helvetica, <<256, 300, 356, 312>>),
     OneSpanLine(Text_BodyLine, 120, Font_Helvetica, <<72, 400, 300, 412>>)}

CoverLineSeqs == UNION {[1..n -> CoverLineChoices] : n \in 0..MaxCoverLines}

\* document.get_toc(), reduced to the page of each entry: no table of
\* contents, a first entry with no page in the document (-1), and first
\* entries pointing to pages 1, 2 and 3
CoverTocs == {<<>>, <<-1>>, <<1>>, <<2>>, <<3>>}

\* no image, or images of 50000 square points (over 2% of the page)
CoverImageAreas == {0, 50000}

CoverDocs ==
    {[filename |-> <<"r", "e", "p", "o", "r", "t", ".", "p", "d", "f">>, openable |-> TRUE, readable |-> TRUE, toc |-> toc,
      pages |-> <<Page(612, 792, 0, image_area, lines)>>] :
        toc \in CoverTocs, image_area \in CoverImageAreas, lines \in CoverLineSeqs}

InitCover ==
    /\ pc = "call"
    /\ cover_doc \in CoverDocs
    /\ cover_result = FALSE
    /\ MainIdle /\ ExtractorIdle /\ HeadingIdle /\ RefineIdle /\ FinderIdle

\* is_first_page_cover = is_cover_page(input_path, page_number=0)
CallIsCoverPage ==
    /\ pc = "call"
    /\ cover_result' = IsCoverPage(cover_doc)
    /\ pc' = "return"
    /\ UNCHANGED <<cover_doc, mainVars, extractorVars, headingVars, refineVars, finderVars>>

NextCover == CallIsCoverPage

SpecCover == InitCover /\ [][NextCover]_vars

\* C8: on the first page of a document that has a table of contents, the
\* cover classifier returns true whenever the first entry points to a page
\* other than page 1, whatever is on the page; and when the first entry points
\* to page 1, a page that holds one centred 36pt line and nothing else is
\* classified as content
C8_TocShortCircuit ==
    pc = "return" =>
        /\ (/\ cover_doc.toc # <<>>
            /\ cover_doc.toc[1] >= 1
            /\ cover_doc.toc[1] # 1) => cover_result
        /\ (/\ cover_doc.toc = <<1>>
            /\ cover_doc.pages[1].lines = <<CenteredTitleLine>>
            /\ cover_doc.pages[1].image_area = 0) => ~cover_result

\* C8 witness: the classifier has returned true for the page of one centred
\* 36pt line because the table of contents starts on page 2
C8_Witness ==
    /\ pc = "return"
    /\ cover_doc.toc = <<2>>
    /\ cover_doc.pages[1].lines = <<CenteredTitleLine>>
    /\ cover_doc.pages[1].image_area = 0
    /\ cover_result

\* the first page of the document under classification
CoverPage == cover_doc.pages[1]

\* the page is very sparse (fewer than 10 text runs, no body line) and has a
\* significant image area
SparseWithImage ==
    /\ Len(PageSpans(CoverPage.lines)) < 10
    /\ BodyTextLinesCount(CoverPage) = 0
    /\ HasSignificantImage(CoverPage)

\* C16: a page with fewer than 10 text runs, no body line and an image area
\* above 2% of the page area is classified as a cover, also when the primary
\* rule fails
C16_SparseImagePageIsCover ==
    (pc = "return" /\ SparseWithImage) => cover_result

\* C16 witness: a page of one or two 12pt two-word lines, none larger than the
\* page average so that the prominent-element count is 0, with a significant
\* image and no table of contents, has been classified as no cover
C16_Witness ==
    /\ pc = "return"
    /\ cover_doc.toc = <<>>
    /\ SparseWithImage
    /\ CoverPage.lines # <<>>
    /\ ProminentCount(CoverPage) = 0
    /\ ~cover_result

(***************************************************************************)
(* TitleFinder.find_title on generated documents                           *)
(***************************************************************************)
\* the most lines of a generated page
MaxTitleLines == 2

Text_Zoooom == <<"Z", "o", "o", "o", "o", "m">>

Text_2024 == <<"2", "0", "2", "4">>

Text_of == <<"o", "f">>

Text_the == <<"t", "h", "e">>

\* the texts of the lines: two words, a word with a run of four equal
\* letters, a number, a word of two letters and a word of three
TitleLineTexts == {Text_AnnualReport, Text_Zoooom, Text_2024, Text_of, Text_the}

\* the lines of a generated page, at 12pt or 24pt, plain or bold
TitleLineChoices ==
    {LeftLine(t, s, f, 100) :
        t \in TitleLineTexts, s \in {120, 240}, f \in {Font_Helvetica, Font_HelveticaBold}}

TitleLineSeqs == UNION {[1..n -> TitleLineChoices] : n \in 0..MaxTitleLines}

\* the generated documents: a page of lines, alone or after a page without
\* text
TitleDocs ==
    {[filename |-> <<"t", "i", "t", "l", "e", ".", "p", "d", "f">>, openable |-> TRUE,
      readable |-> TRUE, toc |-> <<>>,
      pages |-> lead \o <<Page(612, 792, 0, 0, lines)>>] :
        lead \in {<<>>, <<Page(612, 792, 0, 0, <<>>)>>}, lines \in TitleLineSeqs}

\* a new TitleFinder (self.title = "") and the document to search
InitTitle ==
    /\ pc = "call"
    /\ pdf_path \in TitleDocs
    /\ MainIdle /\ ExtractorIdle /\ HeadingIdle /\ RefineIdle /\ CoverIdle

\* finder.find_title(pdf_path)["title"]
CallFindTitle ==
    /\ pc = "call"
    /\ finder_title' = FinderTitle(pdf_path, finder_title)
    /\ title' = ReturnedTitle(pdf_path, finder_title')
    /\ pc' = "return"
    /\ UNCHANGED <<pdf_path, input_dir, doc_idx, is_first_page_cover, outline, records,
                   extractorVars, headingVars, refineVars, coverVars>>

NextTitle == CallFindTitle

SpecTitle == InitTitle /\ [][NextTitle]_vars

\* the words of the first page of the document that has text
FirstPageWords ==
    IF FindFirstContentPage(pdf_path) = 0 THEN <<>>
    ELSE SafeExtractWords(pdf_path.pages[FindFirstContentPage(pdf_path)])

\* a word longer than 2 characters that is not purely numeric
QualifiesForTitle(word) == Len(word.text) > 2 /\ ~IsDigitStr(word.text)

\* the texts of the qualifying words that have the largest size among the
\* qualifying words and the font name of the first word of that size, in order
LargestWords(words) ==
    LET q == SelectSeq(words, QualifiesForTitle)
        largest == CHOOSE i \in 1..Len(q) : \A j \in 1..Len(q) : q[j].size <= q[i].size
        at_size == {i \in 1..Len(q) : q[i].size = q[largest].size}
        first == CHOOSE i \in at_size : \A j \in at_size : i <= j
        Chosen(word) == word.size = q[largest].size /\ word.fontname = q[first].fontname
        chosen == SelectSeq(q, Chosen)
    IN  IF q = <<>> THEN <<>> ELSE [i \in 1..Len(chosen) |-> chosen[i].text]

\* C18 as stated: the title find_title returns is the largest qualifying
\* words of the first page with text joined by single spaces, or the base name
\* of the file when no word qualifies; it is never empty
C18_Original ==
    pc = "return" =>
        /\ title = IF LargestWords(FirstPageWords) = <<>>
                   THEN BaseName(pdf_path.filename)
                   ELSE Join(LargestWords(FirstPageWords), <<" ">>)
        /\ title # <<>>

\* C18: the title find_title returns is the largest qualifying words of the
\* first page with text joined by single spaces, with every run of three or
\* more equal characters of the joined text reduced to one character, or the
\* base name of the file when no word qualifies; it is never empty
C18_Amended ==
    pc = "return" =>
        /\ title = IF LargestWords(FirstPageWords) = <<>>
                   THEN BaseName(pdf_path.filename)
                   ELSE DeduplicateTitle(Join(LargestWords(FirstPageWords), <<" ">>))
        /\ title # <<>>

\* C18 witness: on a page after a page without text, a 24pt plain word with a
\* run of four letters and a 24pt bold line have been searched, and the title
\* is the word with the run reduced
C18_Witness ==
    /\ pc = "return"
    /\ Len(pdf_path.pages) = 2
    /\ pdf_path.pages[2].lines =
           <<LeftLine(Text_Zoooom, 240, Font_Helvetica, 100),
             LeftLine(Text_AnnualReport, 240, Font_HelveticaBold, 100)>>
    /\ title = <<"Z", "o", "m">>

(***************************************************************************)
(* _determine_body_text_size and _identify_heading_styles on generated     *)
(* font statistics                                                         *)
(***************************************************************************)
\* the most sizes of a generated table
MaxStats == 4

\* the character and bold character counts of a size: no bold, 60% bold,
\* 70% bold, and the largest count, all bold
StatCounts == {<<10, 0>>, <<10, 6>>, <<10, 7>>, <<30, 30>>}

\* the sequences of at most n different sizes, in every order
RECURSIVE SizeOrders(_, _)
SizeOrders(sizes, n) ==
    IF n = 0 THEN {<<>>}
    ELSE {<<>>} \cup
         UNION {{<<s>> \o o : o \in SizeOrders(sizes \ {s}, n - 1)} : s \in sizes}

\* the tables with the sizes in one of the given orders
StatTables(orders) ==
    UNION {{[i \in 1..Len(o) |-> Stat(o[i], c[i][1], c[i][2])] :
               c \in [1..Len(o) -> StatCounts]} : o \in orders}

\* 7pt, 8pt, 14pt and 16pt: the ends of the body range and a size on either
\* side of it
BodySizeTables == StatTables(SizeOrders({70, 80, 140, 160}, MaxStats))

InitBodySize ==
    /\ pc = "call"
    /\ font_stats \in BodySizeTables
    /\ document_title = <<>>
    /\ page_dimensions = <<0, 0>>
    /\ page_num = 0
    /\ stat_pages = {}
    /\ MainIdle /\ HeadingIdle /\ RefineIdle /\ CoverIdle /\ FinderIdle

\* body_size = self._determine_body_text_size()
CallDetermineBodyTextSize ==
    /\ pc = "call"
    /\ body_size' = DetermineBodyTextSize(font_stats)
    /\ pc' = "return"
    /\ UNCHANGED <<heading_styles, prev_heading_context, block, accepted, level,
                   mainVars, extractorVars, refineVars, coverVars, finderVars>>

NextBodySize == CallDetermineBodyTextSize

SpecBodySize == InitBodySize /\ [][NextBodySize]_vars

\* the indices of the sizes of the table within [8, 14]pt
InBodyRange == {i \in 1..Len(font_stats) : font_stats[i].size \in 80..140}

\* the size at index i has the highest key among the sizes at the indices I,
\* and is the first of the table that has it
IsFirstHighest(i, I, Key(_)) ==
    /\ i \in I
    /\ \A j \in I : Key(font_stats[j]) <= Key(font_stats[i])
    /\ \A j \in I : j < i => Key(font_stats[j]) < Key(font_stats[i])

\* the character count without the bold characters
PlainCount(stat) == stat.char_count - stat.bold_count

\* the character count
TotalCount(stat) == stat.char_count

\* what C19 and its original say of the sizes within [8, 14]pt and of the
\* empty table
C19_InRange ==
    /\ font_stats = <<>> => body_size = 110
    /\ InBodyRange # {} =>
           \E i \in InBodyRange : /\ body_size = font_stats[i].size
                                  /\ IsFirstHighest(i, InBodyRange, PlainCount)

\* C19 as stated: the size in [8, 14]pt with the highest character count
\* minus bold character count; without a size in [8, 14]pt, the size with the
\* largest character count; 11.0 without statistics
C19_Original ==
    pc = "return" =>
        /\ C19_InRange
        /\ (font_stats # <<>> /\ InBodyRange = {}) =>
               \E i \in 1..Len(font_stats) :
                   /\ body_size = font_stats[i].size
                   /\ \A j \in 1..Len(font_stats) :
                          TotalCount(font_stats[j]) <= TotalCount(font_stats[i])

\* C19: the size in [8, 14]pt with the highest character count minus bold
\* character count; without a size in [8, 14]pt, the size with the highest
\* character count minus bold character count of all; of several sizes with
\* the highest value the first of the table; 11.0 without statistics
C19_Amended ==
    pc = "return" =>
        /\ C19_InRange
        /\ (font_stats # <<>> /\ InBodyRange = {}) =>
               \E i \in 1..Len(font_stats) :
                   /\ body_size = font_stats[i].size
                   /\ IsFirstHighest(i, 1..Len(font_stats), PlainCount)

\* C19 witness: of a 7pt size with 30 characters, all bold, and a 16pt size
\* with 10 characters, none bold, the 16pt size has been returned
C19_Witness ==
    /\ pc = "return"
    /\ font_stats = <<Stat(70, 30, 30), Stat(160, 10, 0)>>
    /\ body_size = 160

\* the sizes of a set in increasing order
RECURSIVE Ascending(_)
Ascending(sizes) ==
    IF sizes = {} THEN <<>>
    ELSE LET least == CHOOSE s \in sizes : \A t \in sizes : s <= t
         IN  <<least>> \o Ascending(sizes \ {least})

\* a sequence in reverse
Reverse(seq) == [i \in 1..Len(seq) |-> seq[Len(seq) + 1 - i]]

\* the sequences of at most n different sizes in increasing and in decreasing
\* order
SortedSizeOrders(sizes, n) ==
    UNION {{Ascending(S), Reverse(Ascending(S))} :
              S \in {T \in SUBSET sizes : Cardinality(T) <= n}}

\* 9.5pt, 9.6pt, 13pt, 13.2pt, 16pt and 20pt: for a body size of 10pt the
\* sizes at and just above 0.95 times the body size, the size at 1.3 times the
\* body size and one 0.2pt from it, and two larger sizes
StyleTables == StatTables(SortedSizeOrders({95, 96, 130, 132, 160, 200}, MaxStats))

StyleBodySizes == {100, 120}

InitStyles ==
    /\ pc = "call"
    /\ font_stats \in StyleTables
    /\ body_size \in StyleBodySizes
    /\ document_title = <<>>
    /\ page_dimensions = <<0, 0>>
    /\ page_num = 0
    /\ stat_pages = {}
    /\ heading_styles = <<>>
    /\ prev_heading_context = <<>>
    /\ block = <<>>
    /\ accepted = FALSE
    /\ level = <<>>
    /\ MainIdle /\ RefineIdle /\ CoverIdle /\ FinderIdle

\* heading_styles = self._identify_heading_styles(body_size)
CallIdentifyHeadingStyles ==
    /\ pc = "call"
    /\ heading_styles' = IdentifyHeadingStyles(font_stats, body_size)
    /\ pc' = "return"
    /\ UNCHANGED <<body_size, prev_heading_context, block, accepted, level,
                   mainVars, extractorVars, refineVars, coverVars, finderVars>>

NextStyles == CallIdentifyHeadingStyles

SpecStyles == InitStyles /\ [][NextStyles]_vars

\* more than 60% of the characters of the size are bold
MostlyBold(stat) == 10 * stat.bold_count > 6 * stat.char_count

\* the size is at least 1.3 times the body size or mostly bold
LargeOrBold(stat) == 10 * stat.size >= 13 * body_size \/ MostlyBold(stat)

\* the size is at least 0.95 times the body size, and large or bold
QualifiesFrom95(stat) == 100 * stat.size >= 95 * body_size /\ LargeOrBold(stat)

\* the size is above 0.95 times the body size, and large or bold
QualifiesAbove95(stat) == 100 * stat.size > 95 * body_size /\ LargeOrBold(stat)

\* at most 3 styles are returned, in non-increasing score order, their sizes
\* pairwise at least 0.5pt apart
StylesRankedAndDistinct ==
    /\ Len(heading_styles) <= 3
    /\ \A i \in 1..(Len(heading_styles) - 1) :
           heading_styles[i].score >= heading_styles[i + 1].score
    /\ \A i, j \in 1..Len(heading_styles) :
           i # j => Abs(heading_styles[i].size - heading_styles[j].size) >= 5

\* the returned styles are sizes of the table that qualify, and a qualifying
\* size of the table is returned unless it is within 0.5pt of a returned size
\* or 3 styles are returned without it
ReturnedAreQualifying(Qualifies(_)) ==
    /\ \A i \in 1..Len(heading_styles) :
           \E k \in 1..Len(font_stats) :
               /\ font_stats[k].size = heading_styles[i].size
               /\ Qualifies(font_stats[k])
    /\ \A k \in 1..Len(font_stats) :
           Qualifies(font_stats[k]) =>
               \/ \E i \in 1..Len(heading_styles) :
                      Abs(heading_styles[i].size - font_stats[k].size) < 5
               \/ Len(heading_styles) = 3

MaxBatch == 3

Text_BodyReport == <<"T", "h", "i", "s", " ", "r", "e", "p", "o", "r", "t", " ", "d", "e", "s", "c", "r", "i", "b", "e", "s", " ", "t", "h", "e", " ", "w", "o", "r", "k", ".">>

Text_BodySuccess == <<"I", "t", " ", "w", "a", "s", " ", "a", " ", "s", "u", "c", "c", "e", "s", "s", ".">>

Text_Summary == <<"S", "u", "m", "m", "a", "r", "y">>

Text_BodyYear == <<"T", "h", "e", " ", "y", "e", "a", "r", " ", "w", "e", "n", "t", " ", "w", "e", "l", "l", " ", "f", "o", "r", " ", "a", "l", "l", ".">>

Text_Application == <<"A", "p", "p", "l", "i", "c", "a", "t", "i", "o", "n">>

Text_BodyFill == <<"P", "l", "e", "a", "s", "e", " ", "f", "i", "l", "l", " ", "i", "n", " ", "e", "v", "e", "r", "y", " ", "f", "i", "e", "l", "d", ".">>

Text_DateColon == <<"D", "a", "t", "e", ":">>

Text_SignatureColon == <<"S", "i", "g", "n", "a", "t", "u", "r", "e", ":">>

Text_RegistrationForm == <<"R", "e", "g", "i", "s", "t", "r", "a", "t", "i", "o", "n", " ", "F", "o", "r", "m">>

\* a file the libraries cannot open
Doc_corrupt ==
    [filename |-> <<"c", "o", "r", "r", "u", "p", "t", ".", "p", "d", "f">>, openable |-> FALSE, readable |-> FALSE, toc |-> <<>>,
     pages |-> <<>>]

\* a document of zero pages
Doc_empty ==
    [filename |-> <<"e", "m", "p", "t", "y", ".", "p", "d", "f">>, openable |-> TRUE, readable |-> TRUE, toc |-> <<>>,
     pages |-> <<>>]

\* one page of content, its table of contents starting on page 1
Doc_plain ==
    [filename |-> <<"p", "l", "a", "i", "n", ".", "p", "d", "f">>, openable |-> TRUE, readable |-> TRUE, toc |-> <<1>>,
     pages |-> <<Page(612, 792, 0, 0,
                      <<LeftLine(Text_Introduction, 140, Font_Helvetica, 100),
                        LeftLine(Text_BodyReport, 100, Font_Helvetica, 130),
                        LeftLine(Text_Overview, 140, Font_HelveticaBold, 160),
                        LeftLine(Text_BodySuccess, 100, Font_Helvetica, 190)>>)>>]

\* a cover with text (a centred 36pt title over a 12pt line) and a page of
\* content
Doc_report ==
    [filename |-> <<"r", "e", "p", "o", "r", "t", ".", "p", "d", "f">>, openable |-> TRUE, readable |-> TRUE, toc |-> <<>>,
     pages |-> <<Page(612, 792, 0, 0,
                      <<CenteredTitleLine,
                        OneSpanLine(Text_AcmeCorp, 120, Font_Helvetica, <<256, 300, 356, 312>>)>>),
                 Page(612, 792, 0, 0,
                      <<LeftLine(Text_Summary, 200, Font_HelveticaBold, 100),
                        LeftLine(Text_BodyYear, 100, Font_Helvetica, 130),
                        LeftLine(Text_Scope, 140, Font_Helvetica, 160),
                        LeftLine(Text_BodySuccess, 100, Font_Helvetica, 190)>>)>>]

\* a cover that is an image without text, found through the table of
\* contents, and a page of content
Doc_photo ==
    [filename |-> <<"p", "h", "o", "t", "o", ".", "p", "d", "f">>, openable |-> TRUE, readable |-> TRUE, toc |-> <<2>>,
     pages |-> <<Page(612, 792, 0, 400000, <<>>),
                 Page(612, 792, 0, 0,
                      <<LeftLine(Text_Overview, 140, Font_HelveticaBold, 100),
                        LeftLine(Text_BodyYear, 100, Font_Helvetica, 130)>>)>>]

\* a page of content, a page of form labels and a page of form widgets over
\* 20% of it, the last two with a 24pt bold line
Doc_form ==
    [filename |-> <<"f", "o", "r", "m", ".", "p", "d", "f">>, openable |-> TRUE, readable |-> TRUE, toc |-> <<>>,
     pages |-> <<Page(612, 792, 0, 0,
                      <<LeftLine(Text_Application, 140, Font_HelveticaBold, 100),
                        LeftLine(Text_BodyFill, 100, Font_Helvetica, 130)>>),
                 Page(612, 792, 0, 0,
                      <<LeftLine(Text_RegistrationForm, 240, Font_HelveticaBold, 100),
                        LeftLine(Text_NameColon, 100, Font_Helvetica, 200),
                        LeftLine(Text_DateColon, 100, Font_Helvetica, 230),
                        LeftLine(Text_SignatureColon, 100, Font_Helvetica, 260)>>),
                 Page(612, 792, 100000, 0,
                      <<LeftLine(Text_RegistrationForm, 240, Font_HelveticaBold, 100),
                        LeftLine(Text_BodyFill, 100, Font_Helvetica, 200)>>)>>]

\* a page of content 612 x 792, and a page 306 x 396 with form widgets over
\* 20% of it and a 24pt bold line
Doc_mixed ==
    [filename |-> <<"m", "i", "x", "e", "d", ".", "p", "d", "f">>, openable |-> TRUE, readable |-> TRUE, toc |-> <<>>,
     pages |-> <<Page(612, 792, 0, 0,
                      <<LeftLine(Text_Overview, 140, Font_HelveticaBold, 100),
                        LeftLine(Text_BodyReport, 100, Font_Helvetica, 130)>>),
                 Page(306, 396, 24240, 0,
                      <<OneSpanLine(Text_RegistrationForm, 240, Font_HelveticaBold,
                                    <<36, 100, 200, 124>>)>>)>>]

\* a file that opens, the content of whose page cannot be read
Doc_broken ==
    [filename |-> <<"b", "r", "o", "k", "e", "n", ".", "p", "d", "f">>, openable |-> TRUE, readable |-> FALSE, toc |-> <<>>,
     pages |-> <<Page(612, 792, 0, 0, <<>>)>>]

\* the documents a batch is made of
Docs == <<Doc_corrupt, Doc_empty, Doc_plain, Doc_report, Doc_photo, Doc_form, Doc_mixed,
          Doc_broken>>

\* pdf_files: the batches of at most MaxBatch documents, each given by its
\* index in Docs
Batches == UNION {[1..n -> 1..Len(Docs)] : n \in 0..MaxBatch}

\* the document in process
CurrentDoc == Docs[input_dir[doc_idx]]

Init ==
    /\ pc = "main"
    /\ input_dir \in Batches
    /\ doc_idx = 0
    /\ finder_title = <<>>
    /\ title = <<>>
    /\ is_first_page_cover = FALSE
    /\ outline = PyList(<<>>)
    /\ records = <<>>
    /\ ExtractorIdle /\ HeadingIdle /\ RefineIdle /\ CoverIdle /\ FinderIdle

\* TitleFinder.__init__: self.title = ""
FreshFinderTitle == <<>>

\* PDFOutlineExtractor.__init__ keeping self.font_stats as it was
StaleFontStats == font_stats

\* PDFOutlineExtractor.__init__: self.font_stats = defaultdict(...)
FreshFontStats == <<>>

\* main, lines 70-75, and process_pdf, lines 18-19: the next file of
\* pdf_files, a new TitleFinder
NewTitleFinder ==
    /\ pc = "main"
    /\ doc_idx < Len(input_dir)
    /\ doc_idx' = doc_idx + 1
    /\ finder_title' = FreshFinderTitle
    /\ title' = <<>>
    /\ pc' = "find_title"
    /\ UNCHANGED <<input_dir, is_first_page_cover, outline, records,
                   extractorVars, headingVars, refineVars, coverVars, finderVars>>

\* process_pdf, lines 20-25: find_title, and the base name of the file when
\* it raises or finds no title
FindTitle ==
    /\ pc = "find_title"
    /\ finder_title' = IF CurrentDoc.openable THEN FinderTitle(CurrentDoc, finder_title)
                       ELSE finder_title
    /\ title' = IF CurrentDoc.openable /\ finder_title' # <<>> THEN finder_title'
                ELSE BaseName(CurrentDoc.filename)
    /\ pc' = "cover"
    /\ UNCHANGED <<input_dir, doc_idx, is_first_page_cover, outline, records,
                   extractorVars, headingVars, refineVars, coverVars, finderVars>>

\* process_pdf, line 28
CheckCoverPage ==
    /\ pc = "cover"
    /\ is_first_page_cover' = IsCoverPage(CurrentDoc)
    /\ pc' = "construct"
    /\ UNCHANGED <<input_dir, doc_idx, finder_title, title, outline, records,
                   extractorVars, headingVars, refineVars, coverVars, finderVars>>

\* process_pdf, line 33: PDFOutlineExtractor.__init__
NewExtractor ==
    /\ pc = "construct"
    /\ document_title' = title
    /\ font_stats' = FreshFontStats
    /\ page_dimensions' = <<0, 0>>
    /\ page_num' = 0
    /\ stat_pages' = {}
    /\ pc' = "open"
    /\ UNCHANGED <<mainVars, headingVars, refineVars, coverVars, finderVars>>

\* extract_outline, lines 53 and 71-72: fitz.open raises
OpenFails ==
    /\ pc = "open"
    /\ ~CurrentDoc.openable
    /\ outline' = PyDict(FallbackTitle(document_title, CurrentDoc.filename))
    /\ pc' = "write"
    /\ UNCHANGED <<input_dir, doc_idx, finder_title, title, is_first_page_cover, records,
                   extractorVars, headingVars, refineVars, coverVars, finderVars>>

\* extract_outline, lines 54-55: the document has no pages
ZeroPages ==
    /\ pc = "open"
    /\ CurrentDoc.openable
    /\ Len(CurrentDoc.pages) = 0
    /\ outline' = PyDict(FallbackTitle(document_title, CurrentDoc.filename))
    /\ pc' = "write"
    /\ UNCHANGED <<input_dir, doc_idx, finder_title, title, is_first_page_cover, records,
                   extractorVars, headingVars, refineVars, coverVars, finderVars>>

\* extract_outline, line 57
OpenDocument ==
    /\ pc = "open"
    /\ CurrentDoc.openable
    /\ Len(CurrentDoc.pages) > 0
    /\ page_dimensions' = <<CurrentDoc.pages[1].width, CurrentDoc.pages[1].height>>
    /\ page_num' = 0
    /\ pc' = "analyze"
    /\ UNCHANGED <<document_title, font_stats, stat_pages,
                   mainVars, headingVars, refineVars, coverVars, finderVars>>

\* analyze_pages_count of _analyze_document_styles
AnalyzePagesCount == Min2(20, Len(CurrentDoc.pages) - StartPageIdx(is_first_page_cover))

\* one iteration of the loop of _analyze_document_styles, on a page that can
\* be read
AnalyzePage ==
    /\ pc = "analyze"
    /\ page_num < AnalyzePagesCount
    /\ CurrentDoc.readable
    /\ LET idx == StartPageIdx(is_first_page_cover) + page_num
           page == CurrentDoc.pages[idx + 1]
       IN  IF IsFormPage(page, page_dimensions)
           THEN UNCHANGED <<font_stats, stat_pages>>
           ELSE /\ font_stats' = AnalyzeLines(page.lines, page_dimensions, font_stats)
                /\ stat_pages' = stat_pages \cup {idx}
    /\ page_num' = page_num + 1
    /\ UNCHANGED <<pc, document_title, page_dimensions,
                   mainVars, headingVars, refineVars, coverVars, finderVars>>

\* the same iteration on a page that cannot be read: the exception ends
\* extract_outline at lines 71-72
AnalyzeFails ==
    /\ pc = "analyze"
    /\ page_num < AnalyzePagesCount
    /\ ~CurrentDoc.readable
    /\ outline' = PyDict(FallbackTitle(document_title, CurrentDoc.filename))
    /\ pc' = "write"
    /\ UNCHANGED <<input_dir, doc_idx, finder_title, title, is_first_page_cover, records,
                   extractorVars, headingVars, refineVars, coverVars, finderVars>>

\* the end of the loop of _analyze_document_styles
AnalyzeDone ==
    /\ pc = "analyze"
    /\ page_num >= AnalyzePagesCount
    /\ pc' = "headings"
    /\ UNCHANGED <<mainVars, extractorVars, headingVars, refineVars, coverVars, finderVars>>

\* extract_outline, lines 61-65; self.document_title is not empty there (see
\* TitleNeverEmpty), so that _extract_document_title is not called
ExtractHeadings ==
    /\ pc = "headings"
    /\ document_title # <<>>
    /\ outline_candidates' =
           ExtractHeadingsFromContent(CurrentDoc.pages, font_stats, page_dimensions,
                                      is_first_page_cover)
    /\ pc' = "refine"
    /\ UNCHANGED <<final_cleaned_outline, mainVars, extractorVars, headingVars, coverVars, finderVars>>

\* extract_outline, lines 67-69
RefineOutline ==
    /\ pc = "refine"
    /\ final_cleaned_outline' = RefineHierarchy(outline_candidates)
    /\ outline' = PyList(final_cleaned_outline')
    /\ pc' = "write"
    /\ UNCHANGED <<input_dir, doc_idx, finder_title, title, is_first_page_cover, records,
                   outline_candidates, extractorVars, headingVars, coverVars, finderVars>>

\* process_pdf, lines 43-54: the result record is written
WriteResult ==
    /\ pc = "write"
    /\ records' = Append(records, [file |-> input_dir[doc_idx], title |-> title,
                                   outline |-> outline])
    /\ pc' = "main"
    /\ UNCHANGED <<input_dir, doc_idx, finder_title, title, is_first_page_cover, outline,
                   extractorVars, headingVars, refineVars, coverVars, finderVars>>

\* main: pdf_files is empty or exhausted
BatchDone ==
    /\ pc = "main"
    /\ doc_idx >= Len(input_dir)
    /\ pc' = "done"
    /\ UNCHANGED <<mainVars, extractorVars, headingVars, refineVars, coverVars, finderVars>>

Next ==
    \/ NewTitleFinder
    \/ FindTitle
    \/ CheckCoverPage
    \/ NewExtractor
    \/ OpenFails
    \/ ZeroPages
    \/ OpenDocument
    \/ AnalyzePage
    \/ AnalyzeFails
    \/ AnalyzeDone
    \/ ExtractHeadings
    \/ RefineOutline
    \/ WriteResult
    \/ BatchDone

Spec == Init /\ [][Next]_vars

\* the title process_pdf passes to the extractor is never empty
TitleNeverEmpty == pc \in {"open", "analyze", "headings", "refine", "write"} => document_title # <<>>

\* the candidates _extract_headings_from_content returns are in page order
CandidatesInPageOrder ==
    \A i \in 1..(Len(outline_candidates) - 1) :
        outline_candidates[i].page <= outline_candidates[i + 1].page

\* each document of the batch is processed and gets one record, in order
RecordsFollowBatch ==
    /\ Len(records) <= Len(input_dir)
    /\ \A i \in 1..Len(records) : records[i].file = input_dir[i]
    /\ pc = "done" => Len(records) = Len(input_dir)

\* the document a record was written for
DocOf(rec) == Docs[rec.file]

\* the pages of an outline, as the result record holds it
OutlinePages(o) == {o.items[i].page : i \in 1..Len(o.items)}

\* C3: the record written for a document of zero pages has the base name of
\* the file as its title and the empty list of entries as its outline
C3_ZeroPagesRecord ==
    \A i \in 1..Len(records) :
        (DocOf(records[i]).openable /\ Len(DocOf(records[i]).pages) = 0)
            => /\ records[i].title = BaseName(DocOf(records[i]).filename)
               /\ records[i].outline = PyList(<<>>)

\* C3 witness: the record of a document of zero pages holds, as its outline,
\* the dictionary extract_outline returns at line 55
C3_Witness ==
    \E i \in 1..Len(records) :
        /\ DocOf(records[i]).openable
        /\ Len(DocOf(records[i]).pages) = 0
        /\ records[i].title = BaseName(DocOf(records[i]).filename)
        /\ records[i].outline = PyDict(BaseName(DocOf(records[i]).filename))

\* C4: the record written for a document that cannot be opened, or whose
\* pages cannot be read, has the base name of the file as its title and the
\* empty list of entries as its outline, and the batch goes on: when main
\* ends, every document of the batch has its record
C4_UnreadableRecord ==
    /\ \A i \in 1..Len(records) :
          (~DocOf(records[i]).openable \/ ~DocOf(records[i]).readable)
              => /\ records[i].title = BaseName(DocOf(records[i]).filename)
                 /\ records[i].outline = PyList(<<>>)
    /\ pc = "done" => Len(records) = Len(input_dir)

\* C4 witness: a file that cannot be opened got a record whose outline is the
\* dictionary of line 72, and the next document of the batch got its record
C4_Witness ==
    \E i \in 1..Len(records) :
        /\ ~DocOf(records[i]).openable
        /\ records[i].title = BaseName(DocOf(records[i]).filename)
        /\ records[i].outline = PyDict(BaseName(DocOf(records[i]).filename))
        /\ i < Len(records)
        /\ records[i + 1].outline.kind = "list"
        /\ records[i + 1].outline.items # <<>>

\* C5: two records written for the same document in one batch are equal,
\* whatever was processed between them; and nothing is carried over: the
\* title finder starts with no title, the extractor with no font statistics,
\* no page dimensions and the title of this document
C5_RecordDependsOnDocument ==
    /\ \A i, j \in 1..Len(records) :
          records[i].file = records[j].file => records[i] = records[j]
    /\ pc = "find_title" => finder_title = <<>>
    /\ pc = "open" => /\ font_stats = <<>>
                      /\ page_dimensions = <<0, 0>>
                      /\ document_title = title

\* C5 witness: a document with headings was processed first and again after
\* another document with headings
C5_Witness ==
    /\ pc = "done"
    /\ Len(records) = 3
    /\ records[1].file = records[3].file
    /\ records[2].file # records[1].file
    /\ records[1].outline.items # <<>>
    /\ records[2].outline.items # <<>>
    /\ records[2].title # records[1].title

\* a form page as C6 defines it: the widgets cover over 0.15 of the area of
\* the page, or the page has three form indications
C6_FormPage(page) ==
    \/ 100 * page.widget_area > 15 * (page.width * page.height)
    \/ FormIndications(PlainText(page.lines)) >= 3

\* C6: a form page adds nothing to the font statistics and no entry of the
\* outline is on it
C6_FormPagesExcluded ==
    \A p \in 0..(Len(input_dir) + 2) :
        (/\ pc \in {"analyze", "headings", "refine", "write"}
         /\ p < Len(CurrentDoc.pages)
         /\ C6_FormPage(CurrentDoc.pages[p + 1]))
            => /\ p \notin stat_pages
               /\ pc = "write" => p \notin OutlinePages(outline)

\* C6 witness: the second page of a document is smaller than the first, form
\* widgets cover 20% of it, and its 24pt bold line is in the font statistics
\* and in the outline
C6_Witness ==
    /\ pc = "write"
    /\ Len(CurrentDoc.pages) = 2
    /\ C6_FormPage(CurrentDoc.pages[2])
    /\ ~IsFormPage(CurrentDoc.pages[2], page_dimensions)
    /\ 1 \in stat_pages
    /\ \E i \in 1..Len(outline.items) :
          outline.items[i].page = 1 /\ outline.items[i].text = Text_RegistrationForm

\* the title C10 expects under a cover: that of the page at index 1, the
\* base name of the file when that page gives none
C10_TitleOfSecondPage(doc) ==
    IF Len(doc.pages) >= 2 /\ TitleOfPage(doc.pages[2]) # <<>>
    THEN TitleOfPage(doc.pages[2])
    ELSE BaseName(doc.filename)

\* C10 as stated: when the first page is a cover, page index 0 adds nothing to
\* the font statistics, no outline entry has page 0, and the title is that of
\* the page at index 1
C10_Original ==
    (pc \in {"analyze", "headings", "refine", "write"} /\ is_first_page_cover)
        => /\ 0 \notin stat_pages
           /\ pc = "write" => 0 \notin OutlinePages(outline)
           /\ title = C10_TitleOfSecondPage(CurrentDoc)

\* C10 amended: when the first page is a cover, page index 0 adds nothing to
\* the font statistics and no outline entry has page 0; the title is that of
\* the first page that has text, the cover included
C10_Amended ==
    (pc \in {"analyze", "headings", "refine", "write"} /\ is_first_page_cover)
        => /\ 0 \notin stat_pages
           /\ pc = "write" => 0 \notin OutlinePages(outline)
           /\ FindFirstContentPage(CurrentDoc) # 0
                  => title = TitleOfPage(CurrentDoc.pages[FindFirstContentPage(CurrentDoc)])

\* C10 witness: under a cover that has text, the statistics and the outline
\* come from page index 1 and the title from the cover
C10_Witness ==
    /\ pc = "write"
    /\ is_first_page_cover
    /\ stat_pages = {1}
    /\ OutlinePages(outline) = {1}
    /\ FindFirstContentPage(CurrentDoc) = 1
    /\ title = Text_AnnualReport
    /\ title # C10_TitleOfSecondPage(CurrentDoc)

====
